---------------------------- MODULE Spec2Model ----------------------------
(***************************************************************************)
(* A model of the SvmNest hypervisor core (SimpleSvm.cpp, BaseUtil.cpp and *)
(* the utility file): the virtualize / devirtualize lifecycle over all     *)
(* processors with its allocations, and the #VMEXIT dispatcher             *)
(* SvHandleVmExit with its unload path.                                    *)
(*                                                                         *)
(* 64-bit values are kept at full width as four 16-bit limbs, least        *)
(* significant first (<<l0, l1, l2, l3>>); a 32-bit int is two limbs.      *)
(***************************************************************************)
EXTENDS Integers, Sequences, FiniteSets, TLC

VARIABLES
    heap,      \* outstanding allocations: address -> block
    cpu,       \* per processor: the control block the hypervisor runs on, EFER.SVME,
               \* the VM_HSAVE_PA MSR
    last,      \* the last lifecycle operation and what it did (history)
    drv,       \* driver load state: callback registration, DriverEntry's status
    vx,        \* one processor inside / around SvHandleVmExit
    pc,        \* that processor's position in SvHandleVmExit
    sv         \* the shared data: MSR permissions map and nested page tables

vars == <<heap, cpu, last, drv, vx, pc, sv>>

(***************************************************************************)
(* Bounds of the model.                                                    *)
(***************************************************************************)
NumProcessors == 2
MaxBlocks == 12

(***************************************************************************)
(* Fixed-width words.                                                      *)
(***************************************************************************)
LimbMax == 2^16 - 1
LimbTop == 2^15

W(n) == <<n, 0, 0, 0>>
NULL == <<0, 0, 0, 0>>
I32(n) == <<n, 0>>

\* static_cast<int>(UINT64): the low 32 bits.
Lo32(v) == <<v[1], v[2]>>
\* UINT32 -> UINT64
ZeroExt(w) == <<w[1], w[2], 0, 0>>
\* int -> UINT64: the sign bit is copied into the upper 32 bits.
SignExt(w) == IF w[2] >= LimbTop THEN <<w[1], w[2], LimbMax, LimbMax>>
                                 ELSE <<w[1], w[2], 0, 0>>
\* v & MAXUINT32
AndMaxUint32(v) == <<v[1], v[2], 0, 0>>
\* v >> 32
Shr32(v) == <<v[3], v[4], 0, 0>>
\* v << 32 (bits shifted past bit 63 are lost)
Shl32(v) == <<0, 0, v[1], v[2]>>

RECURSIVE OrBits(_, _, _)
OrBits(a, b, n) ==
    IF n = 0 THEN 0
    ELSE (IF (a % 2 = 1) \/ (b % 2 = 1) THEN 1 ELSE 0)
         + 2 * OrBits(a \div 2, b \div 2, n - 1)
\* a | b on 64 bits
Or64(a, b) == [i \in 1..4 |-> OrBits(a[i], b[i], 16)]

\* Sequencing: the value v of one statement, then the rest on it.
Then(v, Rest(_)) == CHOOSE r \in {Rest(x) : x \in {v}} : TRUE

\* The four bytes of an int as they lie in memory (little endian).
BytesOf(w) == <<w[1] % 256, w[1] \div 256, w[2] % 256, w[2] \div 256>>

(***************************************************************************)
(* Program constants.  The headers that define them are not among the      *)
(* source files; the values are the ones the code's comments and the AMD   *)
(* manual give.                                                            *)
(***************************************************************************)
CPUID_PROCESSOR_AND_PROCESSOR_FEATURE_IDENTIFIERS == I32(1)
CPUID_HV_VENDOR_AND_MAX_FUNCTIONS == <<0, 16384>>        \* 0x40000000
CPUID_HV_INTERFACE == <<1, 16384>>                       \* 0x40000001
CPUID_UNLOAD_SIMPLE_SVM == <<16705, 16705>>              \* 0x41414141
CPUID_HV_MAX == CPUID_HV_INTERFACE
IA32_MSR_EFER == <<128, 49152, 0, 0>>                    \* 0xC0000080
IA32_MSR_LSTR == <<130, 49152, 0, 0>>                    \* 0xC0000082
IA32_MSR_VM_HSAVE == <<279, 49153, 0, 0>>                \* 0xC0010117
DPL_SYSTEM == 0
MAXUINT64 == <<LimbMax, LimbMax, LimbMax, LimbMax>>

\* Multi-character literals of the code.
Lit_NmvS == <<30291, 20077>>     \* 'NmvS' = 0x4E6D7653
Lit_tse == <<29541, 8308>>       \* ' tse' = 0x20747365
Lit_spaces == <<8224, 8224>>     \* '    ' = 0x20202020
Lit_Hv0 == <<30280, 12323>>      \* '0#vH' = 0x30237648
Lit_JSVM == <<22093, 19027>>     \* 'JSVM' = 0x4A53564D

\* "SvmNest     " as bytes, the string the presence probe compares against.
VendorIdString == <<83, 118, 109, 78, 101, 115, 116, 32, 32, 32, 32, 32>>

ExitCodes == {"VMEXIT_CPUID", "VMEXIT_MSR", "VMEXIT_VMRUN", "VMEXIT_VMMCALL",
              "VMEXIT_NPF", "VMEXIT_EXCEPTION_BP", "VMEXIT_HLT"}

(***************************************************************************)
(* SvHandleCpuid                                                           *)
(***************************************************************************)
\* registers[3] |= CPUID_FN0000_0001_ECX_HYPERVISOR_PRESENT (bit 31)
OrHypervisorPresent(w) == <<w[1], IF w[2] >= LimbTop THEN w[2] ELSE w[2] + LimbTop>>

\* The switch on the leaf with the vendor signature "SimpleSvm   ", the
\* name the probe's comment still mentions.
SvCpuidRegistersSimpleSvm(leaf, hwregs) ==
    IF leaf = CPUID_PROCESSOR_AND_PROCESSOR_FEATURE_IDENTIFIERS
        THEN [hwregs EXCEPT ![4] = OrHypervisorPresent(@)]
    ELSE IF leaf = CPUID_HV_VENDOR_AND_MAX_FUNCTIONS
        THEN <<CPUID_HV_MAX, <<26963, 28781>>, <<25964, 30291>>, <<8301, 8224>>>>
    ELSE IF leaf = CPUID_HV_INTERFACE
        THEN <<Lit_Hv0, I32(0), I32(0), I32(0)>>
    ELSE hwregs

\* The switch on the leaf: the registers array after it.
SvCpuidRegisters(leaf, hwregs) ==
    IF leaf = CPUID_PROCESSOR_AND_PROCESSOR_FEATURE_IDENTIFIERS
        THEN [hwregs EXCEPT ![4] = OrHypervisorPresent(@)]
    ELSE IF leaf = CPUID_HV_VENDOR_AND_MAX_FUNCTIONS
        THEN <<CPUID_HV_MAX, Lit_NmvS, Lit_tse, Lit_spaces>>
    ELSE IF leaf = CPUID_HV_INTERFACE
        THEN <<Lit_Hv0, I32(0), I32(0), I32(0)>>
    ELSE hwregs

\* The unload request test without the privilege check: any ring could
\* tear the hypervisor down.
SvCpuidIsUnloadRequestAnyDpl(leaf, subLeaf, ssDpl) ==
    /\ leaf = CPUID_UNLOAD_SIMPLE_SVM
    /\ subLeaf = CPUID_UNLOAD_SIMPLE_SVM

\* The unload request test of the CPUID_UNLOAD_SIMPLE_SVM case.
SvCpuidIsUnloadRequest(leaf, subLeaf, ssDpl) ==
    /\ leaf = CPUID_UNLOAD_SIMPLE_SVM
    /\ subLeaf = CPUID_UNLOAD_SIMPLE_SVM
    /\ ssDpl = DPL_SYSTEM

\* 64-bit addition of a small constant.
Add64(v, n) ==
    LET s0 == v[1] + n
        s1 == v[2] + s0 \div 65536
        s2 == v[3] + s1 \div 65536
        s3 == v[4] + s2 \div 65536
    IN  <<s0 % 65536, s1 % 65536, s2 % 65536, s3 % 65536>>

\* The advance the code has commented out: Rip += 2.
SvCpuidCompleteInstructionByTwo(vmcb) == Add64(vmcb.Rip, 2)

\* "Advance RIP to complete the instruction": the new guest RIP.
SvCpuidCompleteInstruction(vmcb) == vmcb.NRip

SvHandleCpuid(s) ==
    LET leaf == Lo32(s.regs.Rax)
        subLeaf == Lo32(s.regs.Rcx)
        registers == SvCpuidRegisters(leaf, s.native)
    IN  [s EXCEPT
            !.ExitVm = IF SvCpuidIsUnloadRequest(leaf, subLeaf, s.GuestVmcb.SsDpl)
                       THEN "EXIT_EXIT" ELSE @,
            !.regs = [Rax |-> SignExt(registers[1]),
                      Rbx |-> SignExt(registers[2]),
                      Rcx |-> SignExt(registers[3]),
                      Rdx |-> SignExt(registers[4])],
            !.GuestVmcb.Rip = SvCpuidCompleteInstruction(s.GuestVmcb)]

(***************************************************************************)
(* VMCB contents and event injection                                       *)
(***************************************************************************)
\* EVENTINJ as its bit fields.
NoEvent == [Vector |-> 0, Type |-> 0, ErrorCodeValid |-> 0, Valid |-> 0, ErrorCode |-> 0]
GpEvent == [Vector |-> 13, Type |-> 3, ErrorCodeValid |-> 1, Valid |-> 1, ErrorCode |-> 0]
BpEvent == [Vector |-> 3, Type |-> 4, ErrorCodeValid |-> 1, Valid |-> 1, ErrorCode |-> 0]

\* A zero-filled VMCB (allocations are zero filled).
ZeroVmcb ==
    [Rax |-> NULL, Rsp |-> NULL, Rflags |-> NULL, Rip |-> NULL, NRip |-> NULL,
     ExitCode |-> "VMEXIT_NONE", ExitInfo1 |-> 0, ExitInfo2 |-> 0, ExitIntInfo |-> 0,
     EventInj |-> NoEvent, Cpl |-> 0, SsDpl |-> 0, LStar |-> NULL]

SvInjectGeneralProtectionException(s) ==
    [s EXCEPT !.GuestVmcb.EventInj = GpEvent]

SvInjectGeneralProtectionExceptionVmcb02(s) ==
    [s EXCEPT !.Vmcb02.EventInj = GpEvent]

SvInjectBPExceptionVmcb02(s) ==
    [s EXCEPT !.Vmcb02.EventInj = BpEvent]

\* EDX:EAX of the guest as one 64-bit value (WRMSR's operand).
EdxEax(s) == Or64(Shl32(s.regs.Rdx), AndMaxUint32(s.regs.Rax))

(***************************************************************************)
(* SaveGuestVmcb12FromGuestVmcb02 (BaseUtil.cpp)                           *)
(***************************************************************************)
\* The 02-view is repointed first and copied to the 12-view afterwards.
SaveGuestVmcb12AfterRepoint(s) ==
    LET v02 == [s.Vmcb02 EXCEPT !.Rsp = s.GuestVmcb.Rsp,
                                !.Rip = s.GuestVmcb.NRip,
                                !.Rflags = s.GuestVmcb.Rflags]
    IN  [s EXCEPT
            !.Vmcb12 = [@ EXCEPT !.Rax = s.regs.Rax, !.Rsp = v02.Rsp,
                                 !.Rflags = v02.Rflags, !.Rip = v02.Rip,
                                 !.NRip = v02.NRip, !.ExitCode = v02.ExitCode,
                                 !.ExitInfo1 = v02.ExitInfo1,
                                 !.ExitInfo2 = v02.ExitInfo2,
                                 !.ExitIntInfo = v02.ExitIntInfo,
                                 !.EventInj = v02.EventInj, !.Cpl = v02.Cpl,
                                 !.LStar = v02.LStar],
            !.regs.Rax = s.vcpu.vmcb_guest_12_pa,
            !.Vmcb02 = v02]

\* The 02-view resumes at the outer RIP, the VMRUN itself, not after it.
SaveGuestVmcb12ResumeAtRip(s) ==
    [s EXCEPT
        !.Vmcb12 = [@ EXCEPT !.Rax = s.regs.Rax, !.Rsp = s.Vmcb02.Rsp,
                             !.Rflags = s.Vmcb02.Rflags, !.Rip = s.Vmcb02.Rip,
                             !.NRip = s.Vmcb02.NRip, !.ExitCode = s.Vmcb02.ExitCode,
                             !.ExitInfo1 = s.Vmcb02.ExitInfo1,
                             !.ExitInfo2 = s.Vmcb02.ExitInfo2,
                             !.ExitIntInfo = s.Vmcb02.ExitIntInfo,
                             !.EventInj = s.Vmcb02.EventInj, !.Cpl = s.Vmcb02.Cpl,
                             !.LStar = s.Vmcb02.LStar],
        !.regs.Rax = s.vcpu.vmcb_guest_12_pa,
        !.Vmcb02.Rsp = s.GuestVmcb.Rsp,
        !.Vmcb02.Rip = s.GuestVmcb.Rip,
        !.Vmcb02.Rflags = s.GuestVmcb.Rflags]

SaveGuestVmcb12FromGuestVmcb02(s) ==
    LET v02 == s.Vmcb02
        v12 == [s.Vmcb12 EXCEPT
                    !.Rax = s.regs.Rax,
                    !.Rsp = v02.Rsp,
                    !.Rflags = v02.Rflags,
                    !.Rip = v02.Rip,
                    !.NRip = v02.NRip,
                    !.ExitCode = v02.ExitCode,
                    !.ExitInfo1 = v02.ExitInfo1,
                    !.ExitInfo2 = v02.ExitInfo2,
                    !.ExitIntInfo = v02.ExitIntInfo,
                    !.EventInj = v02.EventInj,
                    !.Cpl = v02.Cpl,
                    !.LStar = v02.LStar]
    IN  [s EXCEPT
            !.Vmcb12 = v12,
            !.regs.Rax = s.vcpu.vmcb_guest_12_pa,
            !.Vmcb02.Rsp = s.GuestVmcb.Rsp,
            !.Vmcb02.Rip = s.GuestVmcb.NRip,
            !.Vmcb02.Rflags = s.GuestVmcb.Rflags]

(***************************************************************************)
(* Handlers whose code is in SvmTraps, which is not among the source       *)
(* files: modelled from the design document.                               *)
(***************************************************************************)
\* EFER access: a write is applied to the cached guest value only.
SvHandleEffer(s) ==
    [s EXCEPT
        !.GuestMsrEFER = IF s.GuestVmcb.ExitInfo1 = 1 THEN EdxEax(s) ELSE @,
        !.GuestVmcb.Rip = s.GuestVmcb.NRip]

\* LSTAR read: served from the virtualized state.
SvHandleLstrRead(s) ==
    [s EXCEPT
        !.regs.Rax = IF s.GuestVmcb.ExitInfo1 = 0
                     THEN AndMaxUint32(s.GuestVmcb.LStar) ELSE @,
        !.regs.Rdx = IF s.GuestVmcb.ExitInfo1 = 0
                     THEN Shr32(s.GuestVmcb.LStar) ELSE @,
        !.GuestVmcb.Rip = s.GuestVmcb.NRip]

\* VM_HSAVE_PA write: captured into the nested-context cache.
SvHandleSvmHsave(s) ==
    [s EXCEPT
        !.GuestSvmHsave12 = IF s.GuestVmcb.ExitInfo1 = 1 THEN EdxEax(s) ELSE @,
        !.GuestVmcb.Rip = s.GuestVmcb.NRip]

\* Where the inner vCPU structure and the 02-view VMCB live.
VcpuVmxAddr == <<4096, 1, 32768, 65535>>
Vmcb02Pa == <<8192, 1, 0, 0>>

\* VMRUN in flat mode: enter nested mode; RAX names L1's VMCB (the 12-view),
\* the 02-view is the merged copy hardware will run.
SvHandleVmrunEx(s) ==
    [s EXCEPT
        !.CpuMode = "VmxMode",
        !.vcpu_vmx = VcpuVmxAddr,
        !.vcpu = [vmcb_host_02_pa |-> s.GuestSvmHsave12,
                  vmcb_guest_02_pa |-> Vmcb02Pa,
                  vmcb_guest_12_pa |-> s.regs.Rax],
        !.Vmcb12 = s.l1vmcb,
        !.Vmcb02 = s.l1vmcb]

SvHandleVmmcall(s) == s

SvHandleCpuidForL2ToL1(s) == SaveGuestVmcb12FromGuestVmcb02(s)

SvHandleMsrAccessNest(s) == SaveGuestVmcb12FromGuestVmcb02(s)

SvHandleVmmcallNest(s) == SaveGuestVmcb12FromGuestVmcb02(s)

\* VMRUN by L1 while nested: the 12-view is merged into the 02-view again.
SvHandleVmrunExForL1ToL2(s) ==
    [s EXCEPT
        !.Vmcb02.Rax = s.Vmcb12.Rax,
        !.Vmcb02.Rip = s.Vmcb12.Rip,
        !.Vmcb02.Rsp = s.Vmcb12.Rsp,
        !.Vmcb02.Rflags = s.Vmcb12.Rflags,
        !.regs.Rax = s.Vmcb12.Rax]

SvHandleBreakPointExceptionNest(s) == SvInjectBPExceptionVmcb02(s)

(***************************************************************************)
(* SvHandleMsrAccess                                                       *)
(***************************************************************************)
\* The switch with a default case that lets the access pass: the
\* instruction is skipped and nothing is injected.
SvHandleMsrAccessPassThrough(s) ==
    LET MsrNum == s.regs.Rcx
    IN  IF MsrNum = IA32_MSR_EFER THEN SvHandleEffer(s)
        ELSE IF MsrNum = IA32_MSR_LSTR THEN SvHandleLstrRead(s)
        ELSE IF MsrNum = IA32_MSR_VM_HSAVE THEN SvHandleSvmHsave(s)
        ELSE [s EXCEPT !.GuestVmcb.Rip = s.GuestVmcb.NRip]

SvHandleMsrAccess(s) ==
    LET MsrNum == s.regs.Rcx
    IN  IF MsrNum = IA32_MSR_EFER THEN SvHandleEffer(s)
        ELSE IF MsrNum = IA32_MSR_LSTR THEN SvHandleLstrRead(s)
        ELSE IF MsrNum = IA32_MSR_VM_HSAVE THEN SvHandleSvmHsave(s)
        ELSE SvInjectGeneralProtectionException(s)

(***************************************************************************)
(* SvHandleVmExit, in the order of its statements                          *)
(***************************************************************************)
KeBugCheck(s) == [s EXCEPT !.halt = TRUE]

\* The handler a case of the switch calls, noted for the record.
Called(name, s) == [s EXCEPT !.handler = name]

\* SV_DEBUG_BREAK: a breakpoint when a kernel debugger is attached, nothing
\* otherwise; execution continues with the next statement either way.
SV_DEBUG_BREAK(s) == s

\* The host state is reloaded from the outer hypervisor's host VMCB in
\* either mode.
SvExitLoadHostStateOuter(s) == [s EXCEPT !.hw.loaded = "HostVmcb"]

\* Load the host state that #VMEXIT did not load.
SvExitLoadHostState(s) ==
    IF s.CpuMode # "VmxMode" /\ s.vcpu_vmx = NULL
        THEN [s EXCEPT !.hw.loaded = "HostVmcb"]
    ELSE IF s.vcpu_vmx = NULL
        THEN [s EXCEPT !.hw.loaded = "fault", !.halt = TRUE]
    ELSE [s EXCEPT !.hw.loaded = "Host02"]

\* What the switch finds when it is reached: the exit code it switches on,
\* RAX of the register snapshot and the exit request flag.
NoSwitch == [code |-> "VMEXIT_NONE", Rax |-> NULL, ExitVm |-> "EXIT_NOTHING"]
Switched(s, code) ==
    [s EXCEPT !.seen = [code |-> code, Rax |-> s.regs.Rax, ExitVm |-> s.ExitVm]]

\* The switch on the exit code, flat mode.
SvExitFlatSwitch(s0) ==
    LET code == s0.GuestVmcb.ExitCode
        s == Switched(s0, code)
    IN  IF code = "VMEXIT_CPUID" THEN SvHandleCpuid(Called("SvHandleCpuid", s))
        ELSE IF code = "VMEXIT_MSR" THEN SvHandleMsrAccess(Called("SvHandleMsrAccess", s))
        ELSE IF code = "VMEXIT_VMRUN" THEN SvHandleVmrunEx(Called("SvHandleVmrunEx", s))
        ELSE IF code = "VMEXIT_VMMCALL" THEN SvHandleVmmcall(Called("SvHandleVmmcall", s))
        ELSE IF code = "VMEXIT_NPF" THEN SV_DEBUG_BREAK(s)
        ELSE KeBugCheck(SV_DEBUG_BREAK(s))

\* The switch on the exit code, nested mode.
SvExitNestedSwitch(s0) ==
    LET ullExitCode == s0.Vmcb02.ExitCode
        s == Switched(s0, ullExitCode)
    IN  IF ullExitCode = "VMEXIT_CPUID"
            THEN SvHandleCpuidForL2ToL1(Called("SvHandleCpuidForL2ToL1", s))
        ELSE IF ullExitCode = "VMEXIT_MSR"
            THEN SvHandleMsrAccessNest(Called("SvHandleMsrAccessNest", s))
        ELSE IF ullExitCode = "VMEXIT_VMRUN"
            THEN SvHandleVmrunExForL1ToL2(Called("SvHandleVmrunExForL1ToL2", s))
        ELSE IF ullExitCode = "VMEXIT_VMMCALL"
            THEN SvHandleVmmcallNest(Called("SvHandleVmmcallNest", s))
        ELSE IF ullExitCode = "VMEXIT_EXCEPTION_BP"
            THEN SvHandleBreakPointExceptionNest(Called("SvHandleBreakPointExceptionNest", s))
        ELSE KeBugCheck(SV_DEBUG_BREAK(s))

\* The dispatcher reading RAX from the outer guest VMCB in either mode.
SvExitDispatchOuterRax(s) ==
    IF s.CpuMode # "VmxMode"
        THEN SvExitFlatSwitch([s EXCEPT !.regs.Rax = s.GuestVmcb.Rax,
                                        !.ExitVm = "EXIT_NOTHING"])
        ELSE SvExitNestedSwitch([s EXCEPT !.regs.Rax = s.GuestVmcb.Rax,
                                          !.ExitVm = "EXIT_NOTHING"])

\* Reflect the guest RAX to the context and handle the exit.
SvExitDispatch(s) ==
    IF s.CpuMode # "VmxMode"
        THEN SvExitFlatSwitch([s EXCEPT !.regs.Rax = s.GuestVmcb.Rax,
                                        !.ExitVm = "EXIT_NOTHING"])
        ELSE SvExitNestedSwitch([s EXCEPT !.regs.Rax = s.Vmcb02.Rax,
                                          !.ExitVm = "EXIT_NOTHING"])

\* RFLAGS.IF is bit 9.
RflagsIF(v) == (v[1] \div 512) % 2 = 1

\* The unload path with RFLAGS restored before EFER.SVME is cleared.
SvUnloadStepsEflagsFirst ==
    <<"encode", "vmload_guest", "disable", "stgi", "writeeflags", "clear_svme">>

\* The statements of the unload path, in program order.
SvUnloadSteps ==
    <<"encode", "vmload_guest", "disable", "stgi", "clear_svme", "writeeflags">>

\* The return registers of the unload request.
SvUnloadEncode(s) ==
    [Rax |-> AndMaxUint32(s.VpData),
     Rbx |-> s.GuestVmcb.NRip,
     Rcx |-> s.GuestVmcb.Rsp,
     Rdx |-> Shr32(s.VpData)]

\* One statement of the unload path.
SvUnloadStep(op, s) ==
    LET t == [s EXCEPT !.trace = Append(@, op)]
    IN  CASE op = "encode" -> [t EXCEPT !.regs = SvUnloadEncode(s)]
          [] op = "vmload_guest" -> [t EXCEPT !.hw.loaded = "GuestVmcb"]
          [] op = "disable" -> [t EXCEPT !.hw.IF = FALSE]
          [] op = "stgi" -> [t EXCEPT !.hw.GIF = TRUE]
          [] op = "clear_svme" -> [t EXCEPT !.hw.SVME = FALSE]
          [] op = "writeeflags" -> [t EXCEPT !.hw.IF = RflagsIF(s.GuestVmcb.Rflags),
                                            !.hw.rflagsRestored = TRUE]

RECURSIVE SvUnloadFrom(_, _)
SvUnloadFrom(i, s) ==
    IF i > Len(SvUnloadSteps) THEN s
    ELSE Then(SvUnloadStep(SvUnloadSteps[i], s), LAMBDA t : SvUnloadFrom(i + 1, t))

\* The write-back as it was before nesting: always to the outer VMCB.
SvExitWriteBackRaxOuter(s) == [s EXCEPT !.GuestVmcb.Rax = s.regs.Rax]

\* Reflect the potentially updated RAX to the VMCB that runs next.
SvExitWriteBackRax(s) ==
    IF s.CpuMode # "VmxMode"
        THEN [s EXCEPT !.GuestVmcb.Rax = s.regs.Rax]
        ELSE [s EXCEPT !.Vmcb02.Rax = s.regs.Rax]

\* The part of SvHandleVmExit after the switch.
SvExitTail(s) ==
    IF s.ExitVm = "EXIT_EXIT" THEN SvUnloadFrom(1, s) ELSE SvExitWriteBackRax(s)

\* SvHandleVmExit as a whole; the result's ExitVm is its return value.
SvHandleVmExit(s) ==
    Then(SvExitLoadHostState(s), LAMBDA a :
        IF a.halt THEN a
        ELSE Then(SvExitDispatch(a), LAMBDA b :
                 IF b.halt THEN b ELSE SvExitTail(b)))

(***************************************************************************)
(* One processor around SvHandleVmExit: the guest takes #VMEXITs, the      *)
(* dispatcher runs statement group by statement group.                     *)
(***************************************************************************)
\* Addresses the allocator hands out: page aligned, covering both values
\* of bit 31 and of bit 63.
AddrOf(i) ==
    <<(4096 * i) % 65536,
      IF i % 2 = 1 THEN 32768 + i ELSE i,
      32768 + 16 * i,
      IF (i \div 2) % 2 = 1 THEN 65535 ELSE 0>>

Pool == {AddrOf(i) : i \in 1..MaxBlocks}

\* The slot of an address of the pool.
SlotOf(a) == CHOOSE i \in 1..MaxBlocks : AddrOf(i) = a

\* Every processor before any virtualization.
IdleCpu ==
    [p \in 0..(NumProcessors - 1) |->
        [VpData |-> NULL, SVME |-> FALSE, VM_HSAVE_PA |-> NULL]]

\* A block of memory: the fields of the structures the lifecycle reads
\* (VIRTUAL_PROCESSOR_DATA.HostStackLayout, ProcessorNestData,
\* SHARED_VIRTUAL_PROCESSOR_DATA), zero filled when allocated.  Of the
\* shared data it holds the set bits of a permissions map (bits), whether
\* the nested page tables are all zero or the tables SvBuildNestedPageTables
\* builds (Npt), and who wrote either, with the processors that were
\* running on the block at the time (writes).  Of the guest VMCB's control
\* area it holds the first intercept vector, as the set of its set bits, and
\* the address of the permissions map.
FreeBlock ==
    [kind |-> "free", Reserved1 |-> NULL, SharedVpData |-> NULL, Self |-> NULL,
     pProcessNestData |-> NULL, MsrPermissionsMap |-> NULL,
     CpuMode |-> "ProtectedMode", vcpu_vmx |-> NULL, owner |-> -1,
     bits |-> {}, Npt |-> "zero", writes |-> <<>>,
     InterceptMisc1 |-> {}, MsrpmBasePa |-> NULL,
     InterceptException |-> {}, InterceptMisc2 |-> {}, NCr3 |-> NULL,
     NpEnable |-> FALSE, StateSaveArea |-> "zero", HostVmcbPa |-> NULL,
     GuestVmcbPa |-> NULL, GuestSvmHsave12 |-> NULL, GuestMsrEFER |-> NULL]

EmptyHeap == [a \in Pool |-> FreeBlock]

\* Control block addresses the dispatcher is exercised with.
ExitVpDataValues == {AddrOf(i) : i \in 1..4}

ZeroRegs == [Rax |-> NULL, Rbx |-> NULL, Rcx |-> NULL, Rdx |-> NULL]

\* Native CPUID results the host sees (__cpuidex in SvHandleCpuid).
NativeCpuidValues ==
    {<<I32(0), I32(0), I32(0), I32(0)>>,
     <<<<4097, 32768>>, <<0, 0>>, <<8195, 33024>>, <<65535, 1023>>>>}

\* What a guest can have in its registers when it exits, and the state
\* the exit finds: the exit code, RAX, RCX, RDX, the privilege level, the
\* exit information, the native CPUID result, the length of the trapping
\* instruction, the guest's RFLAGS (IF clear: 2, IF set: 514) and the
\* host's interrupt flag.
NoNative == <<I32(0), I32(0), I32(0), I32(0)>>

CpuidLeafInputs ==
    [code : {"VMEXIT_CPUID"},
     rax : {W(1), ZeroExt(CPUID_HV_VENDOR_AND_MAX_FUNCTIONS), ZeroExt(CPUID_HV_INTERFACE),
            ZeroExt(CPUID_UNLOAD_SIMPLE_SVM), W(7)},
     rcx : {W(0)}, rdx : {W(0)}, dpl : {0}, info1 : {0},
     native : NativeCpuidValues, len : {2, 3}, rflags : {W(2)}, hostIF : {FALSE}]

CpuidUnloadInputs ==
    [code : {"VMEXIT_CPUID"},
     rax : {ZeroExt(CPUID_UNLOAD_SIMPLE_SVM), <<16705, 16705, 1, 0>>,
            ZeroExt(CPUID_HV_VENDOR_AND_MAX_FUNCTIONS)},
     rcx : {W(0), ZeroExt(CPUID_UNLOAD_SIMPLE_SVM)},
     rdx : {W(0)}, dpl : {0, 3}, info1 : {0},
     native : {NoNative}, len : {2}, rflags : {W(2), W(514)}, hostIF : BOOLEAN]

MsrInputs ==
    [code : {"VMEXIT_MSR"},
     rax : {W(256), <<0, 33024, 0, 0>>},
     rcx : {IA32_MSR_EFER, IA32_MSR_LSTR, IA32_MSR_VM_HSAVE, W(16),
            <<128, 49152, 1, 0>>},
     rdx : {W(0)}, dpl : {0}, info1 : {0, 1},
     native : {NoNative}, len : {2}, rflags : {W(2)}, hostIF : {FALSE}]

OtherInputs ==
    [code : ExitCodes \ {"VMEXIT_CPUID", "VMEXIT_MSR"},
     rax : {W(12288)},
     rcx : {W(0)}, rdx : {W(0)}, dpl : {0}, info1 : {0},
     native : {NoNative}, len : {3}, rflags : {W(514)}, hostIF : {FALSE}]

ExitInputs == CpuidLeafInputs \cup CpuidUnloadInputs \cup MsrInputs \cup OtherInputs

\* The exits of a nested guest (L2) that the model draws.
NestedExitInputs ==
    OtherInputs \cup
    [code : {"VMEXIT_CPUID", "VMEXIT_MSR"},
     rax : {W(1), ZeroExt(CPUID_UNLOAD_SIMPLE_SVM)},
     rcx : {ZeroExt(CPUID_UNLOAD_SIMPLE_SVM)},
     rdx : {W(0)}, dpl : {0}, info1 : {0},
     native : {NoNative}, len : {2}, rflags : {W(2)}, hostIF : {FALSE}]

\* L1's own VMCB as VMRUN finds it.
L1Vmcb ==
    [ZeroVmcb EXCEPT !.Rax = W(3), !.Rip = W(24576), !.Rsp = W(28672), !.Rflags = W(2)]

ExitInit(a) ==
    [VpData |-> a,
     GuestVmcb |-> ZeroVmcb, Vmcb02 |-> ZeroVmcb, Vmcb12 |-> ZeroVmcb,
     CpuMode |-> "ProtectedMode", vcpu_vmx |-> NULL,
     vcpu |-> [vmcb_host_02_pa |-> NULL, vmcb_guest_02_pa |-> NULL,
               vmcb_guest_12_pa |-> NULL],
     Reserved1 |-> MAXUINT64,
     GuestMsrEFER |-> NULL, GuestSvmHsave12 |-> NULL,
     regs |-> ZeroRegs, ExitVm |-> "EXIT_NOTHING",
     hw |-> [IF |-> FALSE, GIF |-> TRUE, SVME |-> TRUE, loaded |-> "guest",
             rflagsRestored |-> FALSE],
     halt |-> FALSE, native |-> <<I32(0), I32(0), I32(0), I32(0)>>,
     l1vmcb |-> L1Vmcb, trace |-> <<>>, handler |-> "none", seen |-> NoSwitch,
     in |-> [code |-> "VMEXIT_NONE", rax |-> NULL, rcx |-> NULL, dpl |-> 0,
             mode |-> "ProtectedMode", rip |-> NULL, nrip |-> NULL, rsp |-> NULL,
             rflags |-> NULL]]

\* #VMEXIT: hardware saves the guest's RAX, RIP, RSP, RFLAGS and the exit
\* information into the VMCB it was running, clears GIF and enters the host.
HwVmExit(s, i) ==
    LET base == IF s.CpuMode = "VmxMode" THEN 40960 ELSE 4096
        saved(v) == [v EXCEPT !.Rax = i.rax, !.Rip = W(base), !.NRip = W(base + i.len),
                              !.Rsp = W(base + 2048), !.Rflags = i.rflags,
                              !.ExitCode = i.code, !.ExitInfo1 = i.info1,
                              !.SsDpl = i.dpl, !.Cpl = i.dpl, !.EventInj = NoEvent]
        t == [s EXCEPT !.regs = [Rax |-> NULL, Rbx |-> W(11), Rcx |-> i.rcx, Rdx |-> i.rdx],
                       !.native = i.native,
                       !.ExitVm = "EXIT_NOTHING",
                       !.trace = <<>>,
                       !.handler = "none",
                       !.seen = NoSwitch,
                       !.hw = [IF |-> i.hostIF, GIF |-> FALSE, SVME |-> TRUE,
                               loaded |-> "exit", rflagsRestored |-> FALSE],
                       !.in = [code |-> i.code, rax |-> i.rax, rcx |-> i.rcx, dpl |-> i.dpl,
                               mode |-> s.CpuMode, rip |-> W(base),
                               nrip |-> W(base + i.len),
                               rsp |-> W(base + 2048), rflags |-> i.rflags]]
    IN  IF s.CpuMode = "VmxMode" THEN [t EXCEPT !.Vmcb02 = saved(@)]
                                 ELSE [t EXCEPT !.GuestVmcb = saved(@)]

(***************************************************************************)
(* The shared data: the MSR permissions map and the nested page tables.    *)
(* Memory is kept sparsely: a bitmap is the set of its set bits, a table   *)
(* is a function on the indexes of its entries that are not all zero.      *)
(***************************************************************************)
\* UINT32 arithmetic on two limbs.
Sub32(a, b) ==
    LET d0 == a[1] - b[1]
        borrow == IF d0 < 0 THEN 1 ELSE 0
    IN  <<(d0 + 65536) % 65536, (a[2] - b[2] - borrow + 65536) % 65536>>

Mul32(a, n) ==
    LET p0 == a[1] * n
    IN  <<p0 % 65536, (a[2] * n + p0 \div 65536) % 65536>>

Add32(a, b) ==
    LET s0 == a[1] + b[1]
    IN  <<s0 % 65536, (a[2] + b[2] + s0 \div 65536) % 65536>>

\* A ULONG used as a bit index.
BitIndex(w) == w[1] + 65536 * w[2]

CHAR_BIT == 8
SVM_MSR_PERMISSIONS_MAP_SIZE == 8192
BITS_PER_MSR == 2
FIRST_MSR_RANGE_BASE == <<0, 0>>
SECOND_MSR_RANGE_BASE == <<0, 49152>>              \* 0xc0000000
THIRD_MSR_RANGE_BASE == <<0, 49153>>               \* 0xC0010000
SECOND_MSRPM_OFFSET == I32(2048 * CHAR_BIT)        \* 0x800 * CHAR_BIT
THIRD_MSRPM_OFFSET == I32(4096 * CHAR_BIT)         \* 0x1000 * CHAR_BIT
\* (UINT32)Msr::kIa32svmHsave: VM_HSAVE_PA, MSR C001_0117h
Msr_kIa32svmHsave == Lo32(IA32_MSR_VM_HSAVE)

\* RTL_BITMAP over a buffer.
RtlInitializeBitMap(Buffer, SizeOfBitMap) ==
    [Buffer |-> Buffer, SizeOfBitMap |-> SizeOfBitMap]

\* A build that trusts the allocator's zero fill and clears nothing.
RtlClearAllBitsSkipped(BitMapHeader) == BitMapHeader

RtlClearAllBits(BitMapHeader) ==
    [BitMapHeader EXCEPT !.Buffer = {b \in @ : b >= BitMapHeader.SizeOfBitMap}]

RtlSetBits(BitMapHeader, StartingIndex, NumberToSet) ==
    [BitMapHeader EXCEPT
        !.Buffer = @ \cup {StartingIndex + k : k \in 0..(NumberToSet - 1)}]

\* offset = range offset + (msr - range base) * BITS_PER_MSR
SvMsrpmOffset(msr, rangeBase, msrpmOffset) ==
    BitIndex(Add32(msrpmOffset, Mul32(Sub32(msr, rangeBase), BITS_PER_MSR)))

\* EFER intercepted for reads as well.
SvMsrpmInterceptEferReadWrite(BitMapHeader, offset) ==
    RtlSetBits(RtlSetBits(BitMapHeader, offset, 1), offset + 1, 1)

\* "Set the MSB bit indicating write accesses to the MSR should be intercepted."
SvMsrpmInterceptEfer(BitMapHeader, offset) == RtlSetBits(BitMapHeader, offset + 1, 1)

\* "intercept read and write"
SvMsrpmInterceptReadWrite(BitMapHeader, offset) ==
    RtlSetBits(RtlSetBits(BitMapHeader, offset, 1), offset + 1, 1)

\* SvBuildMsrPermissionsMap on a buffer: the buffer afterwards.
SvBuildMsrPermissionsMap(MsrPermissionsMap) ==
    Then(RtlClearAllBits(RtlInitializeBitMap(MsrPermissionsMap,
                                             SVM_MSR_PERMISSIONS_MAP_SIZE * CHAR_BIT)),
         LAMBDA h0 :
    Then(SvMsrpmInterceptEfer(h0, SvMsrpmOffset(Lo32(IA32_MSR_EFER),
                                  SECOND_MSR_RANGE_BASE, SECOND_MSRPM_OFFSET)),
         LAMBDA h1 :
    Then(SvMsrpmInterceptReadWrite(h1, SvMsrpmOffset(Lo32(IA32_MSR_LSTR),
                                       SECOND_MSR_RANGE_BASE, SECOND_MSRPM_OFFSET)),
         LAMBDA h2 :
             SvMsrpmInterceptReadWrite(h2, SvMsrpmOffset(Msr_kIa32svmHsave,
                                           THIRD_MSR_RANGE_BASE, THIRD_MSRPM_OFFSET)
                                      ).Buffer)))

\* Page tables.  An entry's fields that SvBuildNestedPageTables writes; a
\* table entry that was never written is all zero.
PAGE_SHIFT == 12

ZeroEntry ==
    [PageFrameNumber |-> 0, Valid |-> 0, Write |-> 0, User |-> 0, LargePage |-> 0]

EmptyTable == [i \in {} |-> ZeroEntry]

EntryAt(table, i) == IF i \in DOMAIN table THEN table[i] ELSE ZeroEntry
RowAt(tables, i) == IF i \in DOMAIN tables THEN tables[i] ELSE EmptyTable

\* The pages of SHARED_VIRTUAL_PROCESSOR_DATA that hold tables: Pml4Entries,
\* PdpEntries and PdeEntries[i], each page aligned.
Pml4Page == 0
PdpPage == 1
PdePage(i) == 2 + i

\* MmGetPhysicalAddress of a table of the block.  The block comes from the
\* non-paged pool: contiguous virtually, its physical pages where the
\* memory manager put them.
MmGetPhysicalAddress(layout, page) ==
    IF layout = "contiguous" THEN (4096 + page) * 4096
    ELSE (8192 + ((page * 5) % 521)) * 4096

\* A leaf entry with the table number used for the column as well.
SvBuildPdeEntryRowOnly(entry, i, j) ==
    LET translationPa == (i * 512) + i
    IN  [entry EXCEPT !.PageFrameNumber = translationPa,
                      !.Valid = 1, !.Write = 1, !.User = 1, !.LargePage = 1]

\* The body of the inner loop: leaf entry j of table i.
SvBuildPdeEntry(entry, i, j) ==
    LET translationPa == (i * 512) + j
    IN  [entry EXCEPT !.PageFrameNumber = translationPa,
                      !.Valid = 1, !.Write = 1, !.User = 1, !.LargePage = 1]

\* A second-level entry that is present and writable for the supervisor only.
SvBuildPdpEntrySupervisor(entry, pdeBasePa) ==
    [entry EXCEPT !.PageFrameNumber = pdeBasePa \div 2^PAGE_SHIFT,
                  !.Valid = 1, !.Write = 1]

\* The body of the outer loop before the inner one: second-level entry i.
SvBuildPdpEntry(entry, pdeBasePa) ==
    [entry EXCEPT !.PageFrameNumber = pdeBasePa \div 2^PAGE_SHIFT,
                  !.Valid = 1, !.Write = 1, !.User = 1]

\* SvBuildNestedPageTables on the shared data: the three tables afterwards.
SvBuildNestedPageTables(SharedVpData) ==
    LET pdpBasePa == MmGetPhysicalAddress(SharedVpData.layout, PdpPage)
    IN  [SharedVpData EXCEPT
            !.Pml4Entries =
                [i \in DOMAIN @ \cup {0} |->
                    IF i = 0
                        THEN [EntryAt(@, 0) EXCEPT
                                 !.PageFrameNumber = pdpBasePa \div 2^PAGE_SHIFT,
                                 !.Valid = 1, !.Write = 1, !.User = 1]
                        ELSE @[i]],
            !.PdpEntries =
                [i \in 0..511 |->
                    SvBuildPdpEntry(EntryAt(@, i),
                                    MmGetPhysicalAddress(SharedVpData.layout, PdePage(i)))],
            !.PdeEntries =
                [i \in 0..511 |->
                    [j \in 0..511 |->
                        SvBuildPdeEntry(EntryAt(RowAt(@, i), j), i, j)]]]

\* The shared data as the allocator hands it out: zero filled.
ZeroSharedData ==
    [layout |-> "contiguous", MsrPermissionsMap |-> {},
     Pml4Entries |-> EmptyTable, PdpEntries |-> EmptyTable,
     PdeEntries |-> [i \in {} |-> EmptyTable],
     built |-> [msr |-> FALSE, npt |-> FALSE], prior |-> {}]

(***************************************************************************)
(* The lifecycle: allocation, per-processor virtualize / devirtualize, and *)
(* the all-processor drivers.  The operators thread a machine record m     *)
(* (heap, processors, the running function's status and out values, and    *)
(* the history of what was done) through the statements of the code.       *)
(***************************************************************************)
STATUS_SUCCESS == 0
STATUS_UNSUCCESSFUL == -1073741823                 \* 0xC0000001
STATUS_INSUFFICIENT_RESOURCES == -1073741670       \* 0xC000009A
STATUS_INVALID_PARAMETER_1 == -1073741585          \* 0xC00000EF
STATUS_HV_FEATURE_UNAVAILABLE == -1070268386       \* 0xC035001E
\* NTSTATUS is a signed 32-bit value; success and informational codes are >= 0.
NT_SUCCESS(status) == status >= 0
\* BOOL
BOOL_TRUE == 1
BOOL_FALSE == 0

\* The record of SvVirtualizeAllProcessors's last run, before any run.
NoCall ==
    [called |-> FALSE, status |-> STATUS_SUCCESS, probe |-> FALSE, cpuPre |-> IdleCpu,
     cpuPost |-> IdleCpu, allocated |-> {}, outstanding |-> {}, n |-> 0, virt |-> <<>>,
     devirt |-> <<>>, unl |-> {}]

\* The record of the power callback's last call, before any call.
NoPower == [Argument1 |-> 0, Argument2 |-> BOOL_FALSE, changed |-> FALSE]

\* The affinity of the calling thread before SvExecuteOnEachProcessor pins it.
UserAffinity == "user"

NewMachine(h, c, failAt, start) ==
    [heap |-> h, cpu |-> c, nalloc |-> 0, failAt |-> failAt, start |-> start,
     ret |-> NULL, status |-> STATUS_SUCCESS, n |-> 0, shared |-> NULL,
     fault |-> FALSE, allocated |-> {}, freed |-> {}, virt |-> <<>>,
     devirt |-> <<>>, unl |-> {}, va |-> NoCall, bool |-> BOOL_FALSE,
     ended |-> "none", affinity |-> UserAffinity, calls |-> <<>>, exec |-> <<>>,
     dv |-> <<>>, da |-> <<>>, alt |-> "off", pw |-> NoPower, log |-> <<>>,
     hook |-> "none"]

\* The allocator: the failAt-th request of the running operation fails, and
\* so does a request when memory is exhausted; otherwise the block is the
\* first free one from the allocator's current position, zero filled.
Allocate(m, kind, owner) ==
    LET free == {i \in 1..MaxBlocks : m.heap[AddrOf(i)].kind = "free"}
        rank(i) == (i - 1 - m.start + MaxBlocks) % MaxBlocks
        slot == CHOOSE i \in free : \A j \in free : rank(i) <= rank(j)
        n == m.nalloc + 1
    IN  IF n = m.failAt \/ free = {}
            THEN [m EXCEPT !.nalloc = n, !.ret = NULL]
            ELSE [m EXCEPT !.nalloc = n, !.ret = AddrOf(slot),
                           !.heap[AddrOf(slot)] = [FreeBlock EXCEPT !.kind = kind,
                                                                    !.owner = owner],
                           !.allocated = @ \cup {[a |-> AddrOf(slot), kind |-> kind]}]

\* Freeing an address that is no outstanding block of the right pool
\* corrupts the pool.
Release(m, a, kinds) ==
    IF a \notin Pool THEN [m EXCEPT !.fault = TRUE]
    ELSE IF m.heap[a].kind \notin kinds THEN [m EXCEPT !.fault = TRUE]
    ELSE [m EXCEPT !.heap[a] = FreeBlock, !.freed = @ \cup {a}]

SvAllocatePageAlingedPhysicalMemory(m, kind, owner) == Allocate(m, kind, owner)

SvFreePageAlingedPhysicalMemory(m, BaseAddress) ==
    Release(m, BaseAddress, {"vp", "nest", "shared"})

SvAllocateContiguousMemory(m) == Allocate(m, "msrpm", -1)

SvFreeContiguousMemory(m, BaseAddress) == Release(m, BaseAddress, {"msrpm"})

\* The blocks outstanding, and those a processor's virtualization allocated.
Outstanding(h) == {a \in Pool : h[a].kind # "free"}
BlocksOf(h, p) == {a \in Pool : h[a].kind \in {"vp", "nest"} /\ h[a].owner = p}

Virtualized(c) == {p \in DOMAIN c : c[p].VpData # NULL}

\* The assembly stub around SvHandleVmExit when it returns non-zero: it
\* leaves the hypervisor with RSP from RCX, the marker in ECX, and jumps to
\* RBX; EAX, EBX and EDX are what the handler put there.
SvLaunchVmOnExit(regs) ==
    <<Lo32(regs.Rax), Lo32(regs.Rbx), Lit_JSVM, Lo32(regs.Rdx)>>

\* The #VMEXIT a CPUID instruction of kernel code causes.
CpuidExit(leaf, subLeaf) ==
    [code |-> "VMEXIT_CPUID", rax |-> ZeroExt(leaf), rcx |-> ZeroExt(subLeaf),
     rdx |-> W(0), dpl |-> DPL_SYSTEM, info1 |-> 0, native |-> NoNative, len |-> 2,
     rflags |-> W(514), hostIF |-> FALSE]

\* __cpuidex by kernel code on processor p: native on a processor that is
\* not virtualized (the hypervisor leaves are reserved: zeros), through
\* SvHandleVmExit on one that is.  The result is the four registers, the
\* processor afterwards, what the handler returned and the exit it saw.
Cpuid(m, p, leaf, subLeaf) ==
    IF m.cpu[p].VpData = NULL
        THEN [registers |-> NoNative, cpu |-> m.cpu[p], hv |-> ZeroRegs,
              in |-> ExitInit(NULL).in, left |-> FALSE]
        ELSE Then(SvHandleVmExit(
                      HwVmExit([ExitInit(m.cpu[p].VpData) EXCEPT
                                    !.Reserved1 = m.heap[m.cpu[p].VpData].Reserved1],
                               CpuidExit(leaf, subLeaf))),
                  LAMBDA s :
                      IF s.ExitVm = "EXIT_EXIT"
                          THEN [registers |-> SvLaunchVmOnExit(s.regs),
                                cpu |-> [m.cpu[p] EXCEPT !.VpData = NULL,
                                                         !.SVME = s.hw.SVME],
                                hv |-> s.regs, in |-> s.in, left |-> TRUE]
                          ELSE [registers |-> <<Lo32(s.GuestVmcb.Rax), Lo32(s.regs.Rbx),
                                                Lo32(s.regs.Rcx), Lo32(s.regs.Rdx)>>,
                                cpu |-> m.cpu[p], hv |-> s.regs, in |-> s.in,
                                left |-> FALSE])

SvIsSimpleSvmHypervisorInstalled(m, p) ==
    \E registers \in {Cpuid(m, p, CPUID_HV_VENDOR_AND_MAX_FUNCTIONS, I32(0)).registers} :
        LET vendorId == BytesOf(registers[2]) \o BytesOf(registers[3])
                            \o BytesOf(registers[4])
        IN  vendorId = VendorIdString

\* MmGetPhysicalAddress for the blocks of the pool: a different page for
\* each block, never address zero.
PhysicalAddressOf(BaseAddress) == <<BaseAddress[1], BaseAddress[2], 0, 0>>

\* MmGetPhysicalAddress(&VpData->HostStateArea)
HostStateAreaPa(VpData) == PhysicalAddressOf(VpData)

\* InterceptMisc1 |= SVM_INTERCEPT_MISC1_CPUID; |= SVM_INTERCEPT_MISC1_MSR_PROT
SvPrepareInterceptMisc1(InterceptMisc1) ==
    InterceptMisc1 \cup {"SVM_INTERCEPT_MISC1_CPUID", "SVM_INTERCEPT_MISC1_MSR_PROT"}

\* One statement of SvVirtualizeProcessor in the order of execution, with
\* what it finds: EFER.SVME and VM_HSAVE_PA of the processor it runs on,
\* whether that processor is in guest mode, and the control block.
Logged(m, ev, VpData) ==
    [m EXCEPT !.log = Append(@, [ev |-> ev,
                                 SVME |-> m.cpu[m.affinity].SVME,
                                 VM_HSAVE_PA |-> m.cpu[m.affinity].VM_HSAVE_PA,
                                 guest |-> m.cpu[m.affinity].VpData # NULL,
                                 requests |-> m.nalloc,
                                 vp |-> m.heap[VpData]])]

\* __svm_vmsave: #UD when EFER.SVME is clear.
svm_vmsave(m, VpData) ==
    Logged([m EXCEPT !.fault = @ \/ ~m.cpu[m.affinity].SVME], "__svm_vmsave", VpData)

\* The nested context starts flat: no inner vCPU, the guest's EFER as the
\* processor has it (SVME set by the caller), no cached host save area.
SvPrepareNestData(m, VpData) ==
    [m EXCEPT !.heap[m.heap[VpData].pProcessNestData].vcpu_vmx = NULL,
              !.heap[m.heap[VpData].pProcessNestData].CpuMode = "ProtectedMode",
              !.heap[m.heap[VpData].pProcessNestData].GuestMsrEFER =
                  IF m.cpu[m.affinity].SVME THEN W(4096) ELSE NULL,
              !.heap[m.heap[VpData].pProcessNestData].GuestSvmHsave12 = NULL]

\* The guest VMCB: the intercepts, the permissions map, nested paging, and
\* the guest state from the captured context.
SvPrepareGuestVmcb(m, VpData, SharedVpData) ==
    [m EXCEPT !.heap[VpData].InterceptException = @ \cup {3},
              !.heap[VpData].InterceptMisc1 = SvPrepareInterceptMisc1(@),
              !.heap[VpData].InterceptMisc2 =
                  @ \cup {"SVM_INTERCEPT_MISC2_VMRUN", "SVM_INTERCEPT_MISC2_VMMCALL"},
              !.heap[VpData].MsrpmBasePa =
                  PhysicalAddressOf(m.heap[SharedVpData].MsrPermissionsMap),
              !.heap[VpData].NpEnable = TRUE,
              !.heap[VpData].NCr3 = PhysicalAddressOf(SharedVpData),
              !.heap[VpData].StateSaveArea = "ContextRecord"]

\* "Store data to stack so that the host (hypervisor) can use those values."
SvPrepareHostStackLayout(m, VpData, SharedVpData, Reserved1) ==
    [m EXCEPT !.heap[VpData].Reserved1 = Reserved1,
              !.heap[VpData].SharedVpData = SharedVpData,
              !.heap[VpData].Self = VpData,
              !.heap[VpData].HostVmcbPa = PhysicalAddressOf(VpData),
              !.heap[VpData].GuestVmcbPa = PhysicalAddressOf(VpData)]

\* SvPrepareForVirtualization, storing Reserved1 as the first field of the
\* host stack layout.
SvPrepareWith(m, VpData, SharedVpData, Reserved1) ==
    Then(SvPrepareNestData(m, VpData), LAMBDA a :
    Then(SvPrepareGuestVmcb(a, VpData, SharedVpData), LAMBDA b :
    Then(svm_vmsave(Logged(b, "GuestVmcb", VpData), VpData), LAMBDA c :
    Then(SvPrepareHostStackLayout(c, VpData, SharedVpData, Reserved1), LAMBDA d :
    Then(Logged(d, "HostStackLayout", VpData), LAMBDA e :
    Then([e EXCEPT !.cpu[m.affinity].VM_HSAVE_PA = HostStateAreaPa(VpData)],
         LAMBDA f :
        svm_vmsave(Logged(f, "IA32_MSR_VM_HSAVE", VpData), VpData)))))))

\* SvPrepareForVirtualization without the store of the sentinel.
SvPrepareForVirtualizationNoSentinel(m, VpData, SharedVpData) ==
    SvPrepareWith(m, VpData, SharedVpData, m.heap[VpData].Reserved1)

\* SvPrepareForVirtualization: the nested context starts flat, the guest
\* VMCB gets its intercepts, the address of the permissions map, nested
\* paging and the guest state, the host stack layout its sentinel and its
\* back references, and the VM_HSAVE_PA MSR of the processor it runs on the
\* address of the host state area.
SvPrepareForVirtualization(m, VpData, SharedVpData) ==
    SvPrepareWith(m, VpData, SharedVpData, MAXUINT64)

\* SvLaunchVm: the processor continues as the guest of the hypervisor that
\* runs on VpData.
SvLaunchVm(m, p, VpData) == [m EXCEPT !.cpu[p].VpData = VpData]

\* SvVirtualizeProcessor from the hypervisor check on, both blocks allocated.
\* The guest resumes at the captured context and probes again; a return of
\* SvLaunchVm on the host reaches KeBugCheck.
SvVirtualizeProcessorResume(g, p, vpData) ==
    IF g.cpu[p].VpData = NULL
        THEN [Logged(g, "KeBugCheck", vpData) EXCEPT !.fault = TRUE,
                                                     !.status = STATUS_UNSUCCESSFUL]
    ELSE IF SvIsSimpleSvmHypervisorInstalled(g, p)
        THEN [Logged(g, "SvIsSimpleSvmHypervisorInstalled", vpData)
                  EXCEPT !.status = STATUS_SUCCESS]
    ELSE [g EXCEPT !.fault = TRUE, !.status = STATUS_UNSUCCESSFUL]

\* The launch with EFER.SVME set after the VMCB was prepared.
SvVirtualizeProcessorLaunchLateSvme(m, p, vpData, Context) ==
    Then(Logged(m, "SvIsSimpleSvmHypervisorInstalled", vpData), LAMBDA c :
    IF SvIsSimpleSvmHypervisorInstalled(c, p) = FALSE
        THEN Then(SvPrepareForVirtualization(c, vpData, Context), LAMBDA q :
             Then(Logged([q EXCEPT !.cpu[p].SVME = TRUE], "EFER_SVME", vpData),
                  LAMBDA e :
             Then(SvLaunchVm(Logged(e, "SvLaunchVm", vpData), p, vpData), LAMBDA g :
                 SvVirtualizeProcessorResume(g, p, vpData))))
        ELSE [c EXCEPT !.status = STATUS_SUCCESS])

SvVirtualizeProcessorLaunch(m, p, vpData, Context) ==
    Then(Logged(m, "SvIsSimpleSvmHypervisorInstalled", vpData), LAMBDA c :
    IF SvIsSimpleSvmHypervisorInstalled(c, p) = FALSE
        THEN Then(Logged([c EXCEPT !.cpu[p].SVME = TRUE], "EFER_SVME", vpData),
                  LAMBDA e :
             Then(SvPrepareForVirtualization(e, vpData, Context), LAMBDA q :
             Then(SvLaunchVm(Logged(q, "SvLaunchVm", vpData), p, vpData), LAMBDA g :
                 SvVirtualizeProcessorResume(g, p, vpData))))
        ELSE [c EXCEPT !.status = STATUS_SUCCESS])

\* SvVirtualizeProcessor whose Exit label frees nothing.
SvVirtualizeProcessorNoUnwind(m, p, Context) ==
    IF Context = NULL THEN [m EXCEPT !.status = STATUS_INVALID_PARAMETER_1]
    ELSE
    Then(SvAllocatePageAlingedPhysicalMemory(m, "vp", p), LAMBDA m1 :
        IF m1.ret = NULL THEN [m1 EXCEPT !.status = STATUS_INSUFFICIENT_RESOURCES]
        ELSE
        Then(SvAllocatePageAlingedPhysicalMemory(m1, "nest", p), LAMBDA m2 :
            IF m2.ret = NULL
                THEN [m2 EXCEPT !.status = STATUS_INSUFFICIENT_RESOURCES]
                ELSE Then(Logged([m2 EXCEPT !.heap[m1.ret].pProcessNestData = m2.ret],
                                 "RtlCaptureContext", m1.ret),
                          LAMBDA m3 : SvVirtualizeProcessorLaunch(m3, p, m1.ret, Context))))

\* SvVirtualizeProcessor on processor p, up to its return value.
SvVirtualizeProcessorBody(m, p, Context) ==
    IF Context = NULL THEN [m EXCEPT !.status = STATUS_INVALID_PARAMETER_1]
    ELSE
    Then(SvAllocatePageAlingedPhysicalMemory(m, "vp", p), LAMBDA m1 :
        IF m1.ret = NULL THEN [m1 EXCEPT !.status = STATUS_INSUFFICIENT_RESOURCES]
        ELSE
        Then(SvAllocatePageAlingedPhysicalMemory(m1, "nest", p), LAMBDA m2 :
            IF m2.ret = NULL
                THEN SvFreePageAlingedPhysicalMemory(
                         [m2 EXCEPT !.status = STATUS_INSUFFICIENT_RESOURCES], m1.ret)
                ELSE Then(Logged([m2 EXCEPT !.heap[m1.ret].pProcessNestData = m2.ret],
                                 "RtlCaptureContext", m1.ret),
                          LAMBDA m3 : SvVirtualizeProcessorLaunch(m3, p, m1.ret, Context))))

\* SvVirtualizeProcessor, with the history of the call: whether the
\* processor was virtualized when it was called, its status, and the
\* processor's outstanding blocks before and after.
SvVirtualizeProcessor(m, p, Context) ==
    Then(SvVirtualizeProcessorBody([m EXCEPT !.log = <<>>], p, Context), LAMBDA r :
        [r EXCEPT !.virt = Append(@, [p |-> p,
                                      was |-> m.cpu[p].VpData # NULL,
                                      status |-> r.status,
                                      before |-> Cardinality(BlocksOf(m.heap, p)),
                                      after |-> Cardinality(BlocksOf(r.heap, p)),
                                      Context |-> Context,
                                      requests |-> r.nalloc - m.nalloc,
                                      left |-> {b \in r.allocated \ m.allocated :
                                                   r.heap[b.a].kind = b.kind},
                                      cpuSame |-> r.cpu = m.cpu,
                                      first |-> m.nalloc,
                                      log |-> r.log])])

\* high << 32 | low, with high = registers[3] and low = registers[0] & MAXUINT32
SvDecodeVpData(registers) ==
    Or64(Shl32(SignExt(registers[4])), AndMaxUint32(SignExt(registers[1])))

\* SvDevirtualizeProcessor after the marker was seen: r is the CPUID result,
\* m1 the machine after it.
SvDevirtualizeProcessorFree(m, m1, p, r, vpData) ==
    IF vpData \notin Pool THEN [m1 EXCEPT !.fault = TRUE]
    ELSE
    Then(IF m1.heap[vpData].pProcessNestData # NULL
             THEN [SvFreePageAlingedPhysicalMemory(
                       [m1 EXCEPT !.shared = m1.heap[vpData].SharedVpData],
                       m1.heap[vpData].pProcessNestData)
                       EXCEPT !.heap[vpData].pProcessNestData = NULL]
             ELSE [m1 EXCEPT !.shared = m1.heap[vpData].SharedVpData],
         LAMBDA m3 :
             Then(SvFreePageAlingedPhysicalMemory(m3, vpData), LAMBDA m4 :
                 [m4 EXCEPT !.unl = @ \cup {[p |-> p,
                                            VpData |-> m.cpu[p].VpData,
                                            nest |-> m1.heap[vpData].pProcessNestData,
                                            hv |-> r.hv,
                                            in |-> r.in,
                                            decoded |-> vpData,
                                            freed |-> m4.freed \ m.freed,
                                            left |-> BlocksOf(m4.heap, p)]}]))

\* SvDevirtualizeProcessor without the test of the marker in ECX.
SvDevirtualizeProcessorNoMarker(m, p, Context) ==
    Then(Cpuid(m, p, CPUID_UNLOAD_SIMPLE_SVM, CPUID_UNLOAD_SIMPLE_SVM), LAMBDA r :
        Then([m EXCEPT !.cpu[p] = r.cpu, !.devirt = Append(@, p),
                       !.status = STATUS_SUCCESS],
             LAMBDA m1 :
                 Then(SvDecodeVpData(r.registers), LAMBDA vpData :
                     SvDevirtualizeProcessorFree(m, m1, p, r, vpData))))

\* SvDevirtualizeProcessor from the unload request on.
SvDevirtualizeProcessorUnload(m, p, Context) ==
    Then(Cpuid(m, p, CPUID_UNLOAD_SIMPLE_SVM, CPUID_UNLOAD_SIMPLE_SVM), LAMBDA r :
        Then([m EXCEPT !.cpu[p] = r.cpu, !.devirt = Append(@, p),
                       !.status = STATUS_SUCCESS],
             LAMBDA m1 :
                 IF r.registers[3] # Lit_JSVM THEN m1
                 ELSE Then(SvDecodeVpData(r.registers), LAMBDA vpData :
                          SvDevirtualizeProcessorFree(m, m1, p, r, vpData))))

\* SvDevirtualizeProcessor without the test of its argument.
SvDevirtualizeProcessorUnchecked(m, p, Context) ==
    SvDevirtualizeProcessorUnload(m, p, Context)

\* SvDevirtualizeProcessor on processor p, up to its return value; Context
\* points at the caller's sharedVpData (m.shared).
SvDevirtualizeProcessorBody(m, p, Context) ==
    IF Context = NULL THEN [m EXCEPT !.status = STATUS_SUCCESS]
    ELSE SvDevirtualizeProcessorUnload(m, p, Context)

\* SvDevirtualizeProcessor, with the history of the call: whether the
\* processor was virtualized, whether the unload request came back with the
\* marker, and what the call changed.
SvDevirtualizeProcessor(m, p, Context) ==
    Then(SvDevirtualizeProcessorBody(m, p, Context), LAMBDA r :
        [r EXCEPT !.dv = Append(@, [p |-> p,
                                    Context |-> Context,
                                    was |-> m.cpu[p].VpData # NULL,
                                    marker |-> /\ Context # NULL
                                               /\ Cpuid(m, p, CPUID_UNLOAD_SIMPLE_SVM,
                                                        CPUID_UNLOAD_SIMPLE_SVM)
                                                      .registers[3] = Lit_JSVM,
                                    status |-> r.status,
                                    heapSame |-> r.heap = m.heap,
                                    cpuSame |-> r.cpu = m.cpu,
                                    sharedSame |-> r.shared = m.shared,
                                    freed |-> r.freed \ m.freed])])

\* The thread is pinned to the first processor whatever the index.
KeSetSystemGroupAffinityThreadFirst(m, i) == [m EXCEPT !.affinity = 0]

\* KeSetSystemGroupAffinityThread: the thread now runs on processor i.
KeSetSystemGroupAffinityThread(m, i) == [m EXCEPT !.affinity = i]

\* KeRevertToUserGroupAffinityThread: back to the affinity saved before.
KeRevertToUserGroupAffinityThread(m, oldAffinity) ==
    [m EXCEPT !.affinity = oldAffinity]

\* The loop runs on although the callback failed.
SvExecuteStopNever(status) == FALSE

\* "Exit if the callback returned error."
SvExecuteStop(status) == ~NT_SUCCESS(status)

\* SvExecuteOnEachProcessor: the callback on processor i, i + 1, ... until
\* one fails; n is the number of processors completed.  The callback runs
\* on the processor the thread is pinned to.  KeGetProcessorNumberFromIndex
\* succeeds for every index below the active processor count.
RECURSIVE SvExecuteFrom(_, _, _, _)
SvExecuteFrom(Callback, m, Context, i) ==
    IF i >= NumProcessors THEN [m EXCEPT !.n = i]
    ELSE
    Then(KeSetSystemGroupAffinityThread(m, i), LAMBDA a :
    Then(IF Callback = "SvVirtualizeProcessor"
             THEN SvVirtualizeProcessor(a, a.affinity, Context)
             ELSE SvDevirtualizeProcessor(a, a.affinity, Context),
         LAMBDA r :
    Then(KeRevertToUserGroupAffinityThread(r, m.affinity), LAMBDA v :
    Then([v EXCEPT !.calls = Append(@, [i |-> i, on |-> a.affinity,
                                        status |-> r.status,
                                        after |-> v.affinity])],
         LAMBDA e : IF SvExecuteStop(e.status) THEN [e EXCEPT !.n = i]
                    ELSE SvExecuteFrom(Callback, e, Context, i + 1)))))

\* SvExecuteOnEachProcessor, with the record of the call as it returns.
SvExecuteOnEachProcessor(Callback, m, Context) ==
    Then([m EXCEPT !.status = STATUS_SUCCESS, !.calls = <<>>], LAMBDA m0 :
    Then(SvExecuteFrom(Callback, m0, Context, 0), LAMBDA r :
        [r EXCEPT !.exec = Append(@, [Callback |-> Callback,
                                      status |-> r.status,
                                      n |-> r.n,
                                      calls |-> r.calls,
                                      cpuPre |-> m.cpu,
                                      cpuPost |-> r.cpu])]))

\* The address of SvDevirtualizeAllProcessors's local sharedVpData.
SharedVpDataPtr == <<8, 0, 0, 65535>>

\* SvDevirtualizeAllProcessors once the callback has run: the shared data
\* is freed when a processor handed it back.
SvDevirtualizeAllFree(m1) ==
    IF m1.shared = NULL THEN m1
    ELSE IF m1.shared \notin Pool THEN [m1 EXCEPT !.fault = TRUE]
    ELSE Then(SvFreeContiguousMemory(m1, m1.heap[m1.shared].MsrPermissionsMap),
              LAMBDA m2 : SvFreePageAlingedPhysicalMemory(m2, m1.shared))

\* SvDevirtualizeAllProcessors, with the history of the call: the run of
\* the callback, the processors virtualized before it and when the shared
\* data is freed, those that still refer to it then, and the shared blocks
\* the call freed.
SvDevirtualizeAllProcessors(m) ==
    Then(SvExecuteOnEachProcessor("SvDevirtualizeProcessor",
                                  [m EXCEPT !.shared = NULL], SharedVpDataPtr),
         LAMBDA m1 :
    Then(SvDevirtualizeAllFree(m1), LAMBDA m2 :
        [m2 EXCEPT !.da = Append(@,
            [run |-> m1.exec[Len(m1.exec)],
             shared |-> m1.shared,
             before |-> Virtualized(m.cpu),
             atFree |-> Virtualized(m1.cpu),
             referencing |-> {p \in Virtualized(m1.cpu) :
                                 /\ m1.cpu[p].VpData \in Pool
                                 /\ m1.heap[m1.cpu[p].VpData].SharedVpData = m1.shared},
             freed |-> {a \in Pool : /\ m1.heap[a].kind \in {"shared", "msrpm"}
                                     /\ m2.heap[a].kind = "free"},
             fault |-> m2.fault /\ ~m1.fault,
             faulted |-> m2.fault /\ ~m.fault,
             heapSame |-> m2.heap = m.heap,
             cpuSame |-> m2.cpu = m.cpu,
             released |-> m2.freed \ m.freed])]))

\* What the processor reports to SvIsSvmSupported: the vendor string of
\* CPUID function 0, the SVM bit of Fn8000_0001 ECX, the NP bit of
\* Fn8000_000A EDX, and VM_CR.SVMDIS.
HwCaps ==
    [vendor : {"AuthenticAMD", "GenuineIntel"}, svm : BOOLEAN, np : BOOLEAN,
     svmdis : BOOLEAN]

\* SvIsSvmSupported without the test of the nested paging bit.
SvIsSvmSupportedNoNp(hw) ==
    IF hw.vendor # "AuthenticAMD" THEN FALSE
    ELSE IF ~hw.svm THEN FALSE
    ELSE IF hw.svmdis THEN FALSE
    ELSE TRUE

SvIsSvmSupported(hw) ==
    IF hw.vendor # "AuthenticAMD" THEN FALSE
    ELSE IF ~hw.svm THEN FALSE
    ELSE IF ~hw.np THEN FALSE
    ELSE IF hw.svmdis THEN FALSE
    ELSE TRUE

\* The virtualized processors whose hypervisor runs on shared data a, or on
\* shared data whose permissions map is a.
UsersOf(m, a) ==
    {p \in Virtualized(m.cpu) :
        /\ m.cpu[p].VpData \in Pool
        /\ m.heap[m.cpu[p].VpData].SharedVpData \in Pool
        /\ \/ m.heap[m.cpu[p].VpData].SharedVpData = a
           \/ m.heap[m.heap[m.cpu[p].VpData].SharedVpData].MsrPermissionsMap = a}

\* SvBuildNestedPageTables on the shared data block at SharedVpData.
SvBuildNestedPageTablesAt(m, SharedVpData) ==
    [m EXCEPT !.heap[SharedVpData].Npt = "built",
              !.heap[SharedVpData].writes =
                  Append(@, [by |-> "SvBuildNestedPageTables",
                             users |-> UsersOf(m, SharedVpData)])]

\* SvBuildMsrPermissionsMap on the buffer at MsrPermissionsMap.
SvBuildMsrPermissionsMapAt(m, MsrPermissionsMap) ==
    [m EXCEPT !.heap[MsrPermissionsMap].bits = SvBuildMsrPermissionsMap(@),
              !.heap[MsrPermissionsMap].writes =
                  Append(@, [by |-> "SvBuildMsrPermissionsMap",
                             users |-> UsersOf(m, MsrPermissionsMap)])]

\* The shared data is built after the processors were virtualized on it.
SvVirtualizeAllRunAndBuild(m, sharedVpData) ==
    Then(SvExecuteOnEachProcessor("SvVirtualizeProcessor", m, sharedVpData),
         LAMBDA r :
    Then(SvBuildNestedPageTablesAt(r, sharedVpData), LAMBDA a :
        SvBuildMsrPermissionsMapAt(a, a.heap[sharedVpData].MsrPermissionsMap)))

\* SvVirtualizeAllProcessors with both blocks allocated: build the nested
\* page tables and the permissions map, then virtualize the processors.
SvVirtualizeAllBuildAndRun(m, sharedVpData) ==
    Then(SvBuildNestedPageTablesAt(m, sharedVpData), LAMBDA a :
    Then(SvBuildMsrPermissionsMapAt(a, a.heap[sharedVpData].MsrPermissionsMap),
         LAMBDA b :
        SvExecuteOnEachProcessor("SvVirtualizeProcessor", b, sharedVpData)))

\* The machine on which processor 0 has just been launched on control
\* block VpData: the blocks freshly allocated, the shared data built, the
\* processor prepared and in guest mode.
LaunchedMachine(VpData) ==
    LET nest == AddrOf(MaxBlocks)
        shared == AddrOf(MaxBlocks - 1)
        map == AddrOf(MaxBlocks - 2)
        h == [EmptyHeap EXCEPT ![VpData] = [FreeBlock EXCEPT !.kind = "vp",
                                                            !.owner = 0,
                                                            !.pProcessNestData = nest],
                               ![nest] = [FreeBlock EXCEPT !.kind = "nest",
                                                          !.owner = 0],
                               ![shared] = [FreeBlock EXCEPT !.kind = "shared",
                                                            !.MsrPermissionsMap = map],
                               ![map] = [FreeBlock EXCEPT !.kind = "msrpm"]]
    IN  Then(SvBuildNestedPageTablesAt(
                 [NewMachine(h, IdleCpu, 0, 0) EXCEPT !.affinity = 0], shared),
             LAMBDA a :
        Then(SvBuildMsrPermissionsMapAt(a, map), LAMBDA b :
            SvLaunchVm(SvPrepareForVirtualization([b EXCEPT !.cpu[0].SVME = TRUE],
                                                  VpData, shared),
                       0, VpData)))

\* The host stack layout the hypervisor finds at the first #VMEXIT.
HostStackLayoutAtLaunch(VpData) == LaunchedMachine(VpData).heap[VpData]

\* The nested context of that control block.
NestDataAtLaunch(VpData) ==
    LaunchedMachine(VpData).heap[HostStackLayoutAtLaunch(VpData).pProcessNestData]

\* The Exit label of SvVirtualizeAllProcessors.
SvVirtualizeAllExit(m, sharedVpData) ==
    IF NT_SUCCESS(m.status) THEN m
    ELSE IF m.n # 0
        THEN [SvDevirtualizeAllProcessors(m) EXCEPT !.status = m.status, !.n = m.n]
    ELSE IF sharedVpData # NULL
        THEN Then(IF m.heap[sharedVpData].MsrPermissionsMap # NULL
                      THEN SvFreeContiguousMemory(
                               m, m.heap[sharedVpData].MsrPermissionsMap)
                      ELSE m,
                  LAMBDA m1 : SvFreePageAlingedPhysicalMemory(m1, sharedVpData))
    ELSE m

\* SvVirtualizeAllProcessors after the support check.
SvVirtualizeAllSupported(m) ==
    Then(SvAllocatePageAlingedPhysicalMemory(m, "shared", -1), LAMBDA m1 :
        IF m1.ret = NULL
            THEN SvVirtualizeAllExit(
                     [m1 EXCEPT !.status = STATUS_INSUFFICIENT_RESOURCES], NULL)
        ELSE
        Then(SvAllocateContiguousMemory(m1), LAMBDA m2 :
            Then([m2 EXCEPT !.heap[m1.ret].MsrPermissionsMap = m2.ret], LAMBDA m3 :
                IF m2.ret = NULL
                    THEN SvVirtualizeAllExit(
                             [m3 EXCEPT !.status = STATUS_INSUFFICIENT_RESOURCES],
                             m1.ret)
                    ELSE Then(SvVirtualizeAllBuildAndRun(m3, m1.ret),
                              LAMBDA m4 : SvVirtualizeAllExit(m4, m1.ret)))))

\* SvVirtualizeAllProcessors without the support check.
SvVirtualizeAllUnchecked(m, hw) == SvVirtualizeAllSupported(m)

SvVirtualizeAllProcessorsBody(m, hw) ==
    IF SvIsSvmSupported(hw) = FALSE
        THEN SvVirtualizeAllExit(
                 [m EXCEPT !.status = STATUS_HV_FEATURE_UNAVAILABLE], NULL)
        ELSE SvVirtualizeAllSupported(m)

\* SvVirtualizeAllProcessors, with the record of the call as it returns.
SvVirtualizeAllProcessors(m, hw) ==
    Then(SvVirtualizeAllProcessorsBody([m EXCEPT !.n = 0], hw), LAMBDA r :
        [r EXCEPT !.va = [called |-> TRUE,
                          status |-> r.status,
                          probe |-> SvIsSvmSupported(hw),
                          cpuPre |-> m.cpu,
                          cpuPost |-> r.cpu,
                          allocated |-> r.allocated \ m.allocated,
                          outstanding |-> {b \in r.allocated \ m.allocated :
                                              r.heap[b.a].kind = b.kind},
                          n |-> r.n,
                          virt |-> r.virt,
                          devirt |-> r.devirt,
                          unl |-> r.unl]])

\* StartAmdSvmAndHookMsr; hookStatus is what SyscallHookEnable returns, and
\* hook notes whether it was called and what came of it.
StartAmdSvmAndHookMsr(m, hw, hookStatus) ==
    Then(SvVirtualizeAllProcessors(m, hw), LAMBDA m1 :
        IF ~NT_SUCCESS(m1.status) THEN [m1 EXCEPT !.bool = BOOL_FALSE]
        ELSE IF ~NT_SUCCESS(hookStatus)
            THEN [SvDevirtualizeAllProcessors(m1) EXCEPT !.bool = BOOL_FALSE,
                                                         !.ended = "devirtualize",
                                                         !.hook = "failed"]
        ELSE [m1 EXCEPT !.bool = BOOL_TRUE, !.hook = "enabled"])

StopAmdSvm(m) == [SvDevirtualizeAllProcessors(m) EXCEPT !.ended = "devirtualize"]

\* The driver before DriverEntry on a processor with capabilities hw.
DrvUnloaded(hw) ==
    [state |-> "unloaded", registered |-> FALSE, status |-> STATUS_SUCCESS, hw |-> hw]

\* A processor on which SVM can be used.
SvmCapable == [vendor |-> "AuthenticAMD", svm |-> TRUE, np |-> TRUE, svmdis |-> FALSE]

NoHistory ==
    [op |-> "none", va |-> NoCall, ended |-> "none", virt |-> <<>>, unl |-> {},
     fault |-> FALSE, exec |-> <<>>, dv |-> <<>>, da |-> <<>>, alt |-> "off",
     pw |-> NoPower, hook |-> "none",
     de |-> [started |-> FALSE, ret |-> BOOL_FALSE, status |-> STATUS_SUCCESS,
             registration |-> NULL]]

(***************************************************************************)
(* The dispatcher, one statement group at a time (specification SpecExit). *)
(***************************************************************************)
lifeUnchanged == UNCHANGED <<heap, cpu, last, drv, sv>>

VmExit ==
    /\ pc = "guest"
    /\ \E i \in (IF vx.CpuMode = "VmxMode" THEN NestedExitInputs ELSE ExitInputs) :
          vx' = HwVmExit(vx, i)
    /\ pc' = "entry"
    /\ lifeUnchanged

ExitLoadHostState ==
    /\ pc = "entry"
    /\ vx' = SvExitLoadHostState(vx)
    /\ pc' = IF vx'.halt THEN "halt" ELSE "dispatch"
    /\ lifeUnchanged

ExitDispatch ==
    /\ pc = "dispatch"
    /\ vx' = SvExitDispatch(vx)
    /\ pc' = IF vx'.halt THEN "halt"
             ELSE IF vx'.ExitVm = "EXIT_EXIT" THEN "unload" ELSE "writeback"
    /\ lifeUnchanged

ExitUnloadStep ==
    /\ pc = "unload"
    /\ LET i == Len(vx.trace) + 1
       IN  /\ vx' = SvUnloadStep(SvUnloadSteps[i], vx)
           /\ pc' = IF i = Len(SvUnloadSteps) THEN "return" ELSE "unload"
    /\ lifeUnchanged

ExitWriteBack ==
    /\ pc = "writeback"
    /\ vx' = SvExitWriteBackRax(vx)
    /\ pc' = "return"
    /\ lifeUnchanged

\* The return to the trampoline: it resumes the guest (VMRUN) or, after an
\* unload request, leaves the hypervisor.
ExitReturn ==
    /\ pc = "return"
    /\ pc' = IF vx.ExitVm = "EXIT_EXIT" THEN "unloaded" ELSE "guest"
    /\ vx' = IF vx.ExitVm = "EXIT_EXIT" THEN vx
             ELSE [vx EXCEPT !.hw.GIF = TRUE, !.hw.loaded = "guest"]
    /\ lifeUnchanged

ExitNext ==
    \/ VmExit
    \/ ExitLoadHostState
    \/ ExitDispatch
    \/ ExitUnloadStep
    \/ ExitWriteBack
    \/ ExitReturn

LifeInitIdle ==
    /\ heap = EmptyHeap
    /\ cpu = IdleCpu
    /\ last = NoHistory
    /\ drv = DrvUnloaded(SvmCapable)
    /\ sv = ZeroSharedData

\* The dispatcher starts on a processor that has just been launched.
SpecExitInit ==
    /\ \E a \in ExitVpDataValues :
          /\ heap = LaunchedMachine(a).heap
          /\ cpu = LaunchedMachine(a).cpu
          /\ vx = [ExitInit(a) EXCEPT
                       !.Reserved1 = HostStackLayoutAtLaunch(a).Reserved1,
                       !.CpuMode = NestDataAtLaunch(a).CpuMode,
                       !.vcpu_vmx = NestDataAtLaunch(a).vcpu_vmx,
                       !.GuestSvmHsave12 = NestDataAtLaunch(a).GuestSvmHsave12]
    /\ last = NoHistory
    /\ drv = [DrvUnloaded(SvmCapable) EXCEPT !.state = "loaded"]
    /\ sv = ZeroSharedData
    /\ pc = "guest"

SpecExit == SpecExitInit /\ [][ExitNext]_vars

(***************************************************************************)
(* The driver: DriverEntry, the power state callback and the unload        *)
(* routine, each one atomic step over a machine that starts from the       *)
(* current heap and processors.                                            *)
(***************************************************************************)
PO_CB_SYSTEM_STATE_LOCK == 3

\* Allocation requests one operation can make: the shared data, the MSR
\* bitmap and two blocks per processor; failAt = 0 lets all of them succeed.
FailPoints == 0..(2 + 2 * NumProcessors)
\* Where the allocator's search starts.
AllocatorStarts == {0, 1}
\* A callback registration handle.
CallbackRegistration == <<4660, 0, 0, 65535>>

NoDriverEntry == [started |-> FALSE, ret |-> BOOL_FALSE, status |-> STATUS_SUCCESS,
                  registration |-> NULL]

History(op, m, de) ==
    [op |-> op, va |-> m.va, ended |-> m.ended, virt |-> m.virt, unl |-> m.unl,
     fault |-> m.fault, exec |-> m.exec, dv |-> m.dv,
     da |-> m.da, alt |-> m.alt, pw |-> m.pw, hook |-> m.hook, de |-> de]

\* What one step leaves behind.
Commit(m, op, de, state, registered, status) ==
    /\ heap' = m.heap
    /\ cpu' = m.cpu
    /\ last' = History(op, m, de)
    /\ drv' = [drv EXCEPT !.state = IF m.fault THEN "crashed" ELSE state,
                          !.registered = registered,
                          !.status = status]
    /\ UNCHANGED <<vx, pc, sv>>

DriverEntry ==
    /\ drv.state = "unloaded"
    /\ \E create \in {STATUS_SUCCESS, STATUS_UNSUCCESSFUL},
          callbackRegistration \in {NULL, CallbackRegistration},
          failAt \in FailPoints, start \in AllocatorStarts,
          hookStatus \in {STATUS_SUCCESS, STATUS_UNSUCCESSFUL} :
          \E m1 \in {IF NT_SUCCESS(create) /\ callbackRegistration # NULL
                          THEN StartAmdSvmAndHookMsr(NewMachine(heap, cpu, failAt, start),
                                                     drv.hw, hookStatus)
                          ELSE NewMachine(heap, cpu, failAt, start)} :
          LET started == NT_SUCCESS(create) /\ callbackRegistration # NULL
              \* a run of sleeps and resumes starts when the driver has
              \* virtualized every processor of a machine that held no block
              m == [m1 EXCEPT !.alt = IF /\ started
                                         /\ m1.bool # BOOL_FALSE
                                         /\ Outstanding(heap) = {}
                                         /\ Virtualized(m1.cpu) = DOMAIN m1.cpu
                                          THEN "resumed" ELSE "off"]
              \* status = StartAmdSvmAndHookMsr(): the BOOL becomes the NTSTATUS
              status == IF ~NT_SUCCESS(create) THEN create
                        ELSE IF callbackRegistration = NULL THEN STATUS_UNSUCCESSFUL
                        ELSE m.bool
              registered == NT_SUCCESS(status)
          IN  Commit(m, "DriverEntry",
                     [started |-> started, ret |-> m.bool, status |-> status,
                      registration |-> IF NT_SUCCESS(create) THEN callbackRegistration
                                       ELSE NULL],
                     IF NT_SUCCESS(status) THEN "loaded" ELSE "unloaded",
                     registered, status)

\* The power callback with its branches exchanged.
SvPowerCallbackExchanged(m0, hw, Argument1, Argument2) ==
    IF Argument1 # PO_CB_SYSTEM_STATE_LOCK THEN m0
    ELSE IF Argument2 # BOOL_FALSE
        THEN [SvDevirtualizeAllProcessors(m0) EXCEPT !.ended = "devirtualize"]
    ELSE [SvVirtualizeAllProcessors(m0, hw) EXCEPT !.ended = "virtualize"]

\* The body of SvPowerCallbackRoutine on machine m0.
SvPowerCallback(m0, hw, Argument1, Argument2) ==
    IF Argument1 # PO_CB_SYSTEM_STATE_LOCK THEN m0
    ELSE IF Argument2 # BOOL_FALSE
        THEN [SvVirtualizeAllProcessors(m0, hw) EXCEPT !.ended = "virtualize"]
    ELSE [SvDevirtualizeAllProcessors(m0) EXCEPT !.ended = "devirtualize"]

\* Where a run of alternating sleeps and resumes stands after a
\* notification: a sleep follows a resume, a resume in which every
\* allocation succeeded follows a sleep, anything else ends the run.
AlternationAfter(alt, m, Argument1, Argument2) ==
    IF Argument1 # PO_CB_SYSTEM_STATE_LOCK THEN alt
    ELSE IF Argument2 = BOOL_FALSE
        THEN (IF alt = "resumed" THEN "slept" ELSE "off")
    ELSE IF alt = "slept" /\ Cardinality(m.allocated) = m.nalloc
        THEN "resumed"
    ELSE "off"

SvPowerCallbackRoutine ==
    /\ drv.state = "loaded"
    /\ drv.registered
    /\ \E Argument1 \in {PO_CB_SYSTEM_STATE_LOCK, 0}, Argument2 \in {BOOL_TRUE, BOOL_FALSE},
          failAt \in FailPoints, start \in AllocatorStarts :
          \E m1 \in {SvPowerCallback(NewMachine(heap, cpu, failAt, start), drv.hw,
                                      Argument1, Argument2)} :
          LET m == [m1 EXCEPT !.alt = AlternationAfter(last.alt, m1, Argument1,
                                                       Argument2),
                              !.pw = [Argument1 |-> Argument1,
                                      Argument2 |-> Argument2,
                                      changed |-> m1.heap # heap \/ m1.cpu # cpu]]
          IN  Commit(m, "SvPowerCallbackRoutine", NoDriverEntry, "loaded", TRUE,
                     drv.status)

SvDriverUnload ==
    /\ drv.state = "loaded"
    /\ \E m \in {StopAmdSvm(NewMachine(heap, cpu, 0, 0))} :
           Commit(m, "SvDriverUnload", NoDriverEntry, "unloaded", FALSE, drv.status)

Next ==
    \/ DriverEntry
    \/ SvPowerCallbackRoutine
    \/ SvDriverUnload

Init ==
    /\ heap = EmptyHeap
    /\ cpu = IdleCpu
    /\ last = NoHistory
    /\ \E hw \in HwCaps : drv = DrvUnloaded(hw)
    /\ vx = ExitInit(NULL)
    /\ pc = "idle"
    /\ sv = ZeroSharedData

Spec == Init /\ [][Next]_vars

(***************************************************************************)
(* SvDevirtualizeProcessor on its own: after the driver's entry the        *)
(* callback is applied to one processor at a time, with and without its    *)
(* out parameter, the caller's sharedVpData holding anything.              *)
(***************************************************************************)
\* What the caller's sharedVpData holds before the call.
SharedBefore == {NULL, AddrOf(MaxBlocks)}

SvDevirtualizeOne ==
    /\ drv.state # "crashed"
    /\ \E p \in 0..(NumProcessors - 1), Context \in {NULL, SharedVpDataPtr},
          shared \in SharedBefore :
          \E m \in {SvDevirtualizeProcessor(
                         [NewMachine(heap, cpu, 0, 0) EXCEPT !.shared = shared],
                         p, Context)} :
              Commit(m, "SvDevirtualizeProcessor", NoDriverEntry, drv.state,
                     drv.registered, drv.status)

\* SvVirtualizeProcessor called on processor p with no context, or on a
\* processor that is not virtualized with the shared data of the machine.
SvVirtualizeOne ==
    /\ drv.state # "crashed"
    /\ \E p \in 0..(NumProcessors - 1), failAt \in 0..2 :
          \E Context \in {NULL} \cup {a \in Pool : /\ heap[a].kind = "shared"
                                                   /\ cpu[p].VpData = NULL} :
          \E m \in {SvVirtualizeProcessor(
                         [NewMachine(heap, cpu, failAt, 0) EXCEPT !.affinity = p],
                         p, Context)} :
              Commit(m, "SvVirtualizeProcessor", NoDriverEntry, drv.state,
                     drv.registered, drv.status)

DevirtNext ==
    \/ DriverEntry
    \/ SvDevirtualizeOne
    \/ SvVirtualizeOne

SpecDevirt == Init /\ [][DevirtNext]_vars

(***************************************************************************)
(* The shared state builder on its own: SvBuildMsrPermissionsMap and       *)
(* SvBuildNestedPageTables applied to a buffer and to tables of any prior  *)
(* contents, any number of times.                                          *)
(***************************************************************************)
\* Prior contents of the permissions map: clean, the EFER read bit, the
\* first and the last bit, the bits the build sets and a stray one.
MsrpmPriors ==
    {{}, {16640}, {0, 65535}, {16640, 16641, 33326, 40000},
     {16641, 16644, 16645, 33326, 33327}}

\* Prior contents of an entry: not present with a stale frame number.
StaleEntry ==
    [PageFrameNumber |-> 7, Valid |-> 0, Write |-> 0, User |-> 1, LargePage |-> 0]

SharedDataInputs ==
    [layout : {"contiguous", "scattered"},
     MsrPermissionsMap : MsrpmPriors,
     Pml4Entries : {EmptyTable, [i \in {0} |-> StaleEntry]},
     PdpEntries : {EmptyTable, [i \in {0, 511} |-> StaleEntry]},
     PdeEntries : {[i \in {} |-> EmptyTable],
                   [i \in {0, 511} |-> [j \in {1, 511} |-> StaleEntry]]},
     built : {[msr |-> FALSE, npt |-> FALSE]}, prior : {{}}]

buildUnchanged == UNCHANGED <<heap, cpu, last, drv, vx, pc>>

\* built notes which builder has run; prior, what the permissions map
\* held before the first build.
BuildMsrPermissionsMap ==
    /\ pc = "build"
    /\ sv' = [sv EXCEPT !.MsrPermissionsMap = SvBuildMsrPermissionsMap(@),
                        !.built.msr = TRUE,
                        !.prior = IF sv.built.msr THEN @ ELSE sv.MsrPermissionsMap]
    /\ buildUnchanged

BuildNestedPageTables ==
    /\ pc = "build"
    /\ sv' = [SvBuildNestedPageTables(sv) EXCEPT !.built.npt = TRUE]
    /\ buildUnchanged

BuildNext ==
    \/ BuildMsrPermissionsMap
    \/ BuildNestedPageTables

SpecBuildInit ==
    /\ heap = EmptyHeap
    /\ cpu = IdleCpu
    /\ last = NoHistory
    /\ drv = DrvUnloaded(SvmCapable)
    /\ vx = ExitInit(NULL)
    /\ pc = "build"
    /\ sv \in SharedDataInputs

SpecBuild == SpecBuildInit /\ [][BuildNext]_vars

(***************************************************************************)
(* Properties of the lifecycle (specification Spec).                       *)
(***************************************************************************)
AllProcessors == 0..(NumProcessors - 1)

\* The processors a run of SvVirtualizeAllProcessors virtualized itself.
VirtualizedByCall(va) ==
    {va.virt[i].p : i \in {j \in 1..Len(va.virt) :
                              ~va.virt[j].was /\ NT_SUCCESS(va.virt[j].status)}}

\* C1: all-or-nothing.  Whenever SvVirtualizeAllProcessors returns a
\* non-success status, no processor is left virtualized on behalf of the
\* call and every block the call allocated (per-processor blocks, shared
\* data, MSR bitmap) has been freed; when it returns success, all
\* processors are virtualized.
C1_AllOrNothing ==
    last.va.called =>
        /\ ~NT_SUCCESS(last.va.status) =>
               /\ VirtualizedByCall(last.va) \cap Virtualized(last.va.cpuPost) = {}
               /\ last.va.outstanding = {}
        /\ NT_SUCCESS(last.va.status) =>
               Virtualized(last.va.cpuPost) = AllProcessors

\* C2: rollback.  If virtualizing processor k (0 < k < N) fails, exactly the
\* processors [0, k) are devirtualized afterwards, the shared data of the
\* call is freed, and no processor in [k, N) was touched.
C2_Rollback ==
    (last.va.called /\ ~NT_SUCCESS(last.va.status)
        /\ last.va.n > 0 /\ last.va.n < NumProcessors) =>
        /\ {u.p : u \in last.va.unl} = 0..(last.va.n - 1)
        /\ {b \in last.va.outstanding : b.kind \in {"shared", "msrpm"}} = {}
        /\ \A p \in (last.va.n)..(NumProcessors - 1) :
               last.va.cpuPost[p] = last.va.cpuPre[p]

\* C3: allocation and deallocation pair up.  After any sequence of
\* SvVirtualizeAllProcessors / SvDevirtualizeAllProcessors calls that ends
\* with SvDevirtualizeAllProcessors, no allocation is outstanding.
C3_NoLeak ==
    last.ended = "devirtualize" => Outstanding(heap) = {}

\* C4: idempotence.  SvVirtualizeProcessor on a processor that is already
\* virtualized returns success without allocating: the processor's count of
\* outstanding per-processor blocks is unchanged.
C4_Idempotent ==
    \A i \in 1..Len(last.virt) :
        last.virt[i].was =>
            /\ last.virt[i].status = STATUS_SUCCESS
            /\ last.virt[i].after = last.virt[i].before

\* The hand-off of the unload: RAX and RDX carry the low and the high half of
\* the control block's address, RBX the next RIP, RCX the guest RSP, and
\* SvDevirtualizeProcessor recombines the address exactly and frees that
\* block and its nest sub-block.
SvUnloadRoundTrip ==
    \A u \in last.unl :
        /\ u.hv.Rax = AndMaxUint32(u.VpData)
        /\ u.hv.Rdx = Shr32(u.VpData)
        /\ u.hv.Rbx = u.in.nrip
        /\ u.hv.Rcx = u.in.rsp
        /\ u.decoded = u.VpData
        /\ u.freed = {u.VpData, u.nest}

\* C5: unload hand-off round trip.  The registers carry the control block
\* address and the resume state, the address is recombined exactly, exactly
\* that block and its nest sub-block are freed, and no per-processor block
\* of that processor stays outstanding.
C5_UnloadHandOff ==
    /\ SvUnloadRoundTrip
    /\ \A u \in last.unl : u.left = {}

\* C6: when the support check reports false, SvVirtualizeAllProcessors
\* returns STATUS_HV_FEATURE_UNAVAILABLE, allocates nothing, and invokes
\* neither the virtualize nor the devirtualize callback.
C6_Unsupported ==
    (last.va.called /\ ~last.va.probe) =>
        /\ last.va.status = STATUS_HV_FEATURE_UNAVAILABLE
        /\ last.va.allocated = {}
        /\ last.va.virt = <<>>
        /\ last.va.devirt = <<>>

\* A run of SvVirtualizeAllProcessors on a processor without SVM support.
C6_Witness ==
    /\ last.va.called
    /\ ~last.va.probe
    /\ last.va.status = STATUS_HV_FEATURE_UNAVAILABLE

\* C7: DriverEntry returns a non-success status and unregisters the power
\* callback whenever StartAmdSvmAndHookMsr fails; it returns success, with
\* the callback kept, only when StartAmdSvmAndHookMsr succeeds.
C7_DriverEntryStatus ==
    last.op = "DriverEntry" =>
        /\ (last.de.started /\ last.de.ret = BOOL_FALSE) =>
               (~NT_SUCCESS(last.de.status) /\ ~drv.registered)
        /\ (NT_SUCCESS(last.de.status) /\ drv.registered) =>
               (last.de.started /\ last.de.ret = BOOL_TRUE)

\* C15: the presence probe is TRUE on a processor exactly while the
\* processor is virtualized by this hypervisor: the bytes SvHandleCpuid
\* returns in EBX, ECX, EDX for the vendor leaf are the 12 bytes of the
\* string the probe compares against, the probe that follows the launch
\* never fails, and before virtualization and after devirtualization the
\* probe is FALSE.
C15_ProbeRoundTrip ==
    LET signature == SvCpuidRegisters(CPUID_HV_VENDOR_AND_MAX_FUNCTIONS,
                                      <<I32(0), I32(0), I32(0), I32(0)>>)
    IN  /\ BytesOf(signature[2]) \o BytesOf(signature[3]) \o BytesOf(signature[4])
               = VendorIdString
        /\ \A p \in AllProcessors :
               SvIsSimpleSvmHypervisorInstalled(NewMachine(heap, cpu, 0, 0), p)
                   <=> p \in Virtualized(cpu)
        /\ ~last.fault

\* Every processor was virtualized and has been devirtualized again: the
\* probe is FALSE everywhere.
C15_Witness ==
    /\ Virtualized(cpu) = {}
    /\ {u.p : u \in last.unl} = AllProcessors
    /\ \A p \in AllProcessors :
           ~SvIsSimpleSvmHypervisorInstalled(NewMachine(heap, cpu, 0, 0), p)

(***************************************************************************)
(* Properties of the dispatcher (specification SpecExit).                  *)
(***************************************************************************)
\* C8: on every return of SvHandleVmExit other than the unload, the RAX of
\* the register snapshot has been written to the VMCB the mode at return
\* selects (the outer VMCB in flat mode, the 02-view in nested mode, also
\* on the exit whose VMRUN switched from flat to nested); on the unload
\* path RAX is not written back.
C8_RaxWriteBack ==
    pc = "return" =>
        IF vx.ExitVm = "EXIT_EXIT"
            THEN vx.GuestVmcb.Rax = vx.in.rax
            ELSE (IF vx.CpuMode = "VmxMode" THEN vx.Vmcb02.Rax ELSE vx.GuestVmcb.Rax)
                     = vx.regs.Rax

\* The return of the exit on which a flat-mode VMRUN switched to nested mode.
C8_Witness ==
    /\ pc = "return"
    /\ vx.ExitVm # "EXIT_EXIT"
    /\ vx.in.mode = "ProtectedMode"
    /\ vx.CpuMode = "VmxMode"
    /\ vx.Vmcb02.Rax = vx.regs.Rax
    /\ vx.GuestVmcb.Rax = vx.in.rax

\* C9: a flat-mode CPUID exit requests the exit of the hypervisor only if
\* the leaf is the unload leaf, the sub-leaf is the same constant and the
\* guest's SS DPL is 0; otherwise it never does and the processor stays
\* virtualized.
C9_UnloadOnlyIfPrivileged ==
    (pc \in {"unload", "writeback", "return", "unloaded"}
        /\ vx.in.mode = "ProtectedMode" /\ vx.in.code = "VMEXIT_CPUID") =>
        /\ vx.ExitVm = "EXIT_EXIT" =>
               /\ Lo32(vx.in.rax) = CPUID_UNLOAD_SIMPLE_SVM
               /\ Lo32(vx.in.rcx) = CPUID_UNLOAD_SIMPLE_SVM
               /\ vx.in.dpl = 0
        /\ vx.ExitVm # "EXIT_EXIT" => (pc # "unloaded" /\ vx.hw.SVME)

\* The unload leaf and sub-leaf from ring 3: the dispatcher returns to the
\* guest.
C9_Witness ==
    /\ pc = "return"
    /\ vx.in.mode = "ProtectedMode"
    /\ vx.in.code = "VMEXIT_CPUID"
    /\ Lo32(vx.in.rax) = CPUID_UNLOAD_SIMPLE_SVM
    /\ Lo32(vx.in.rcx) = CPUID_UNLOAD_SIMPLE_SVM
    /\ vx.in.dpl = 3
    /\ vx.ExitVm = "EXIT_NOTHING"

\* C10: the unload path runs in this order: the return registers are
\* encoded, the guest state is loaded (VMLOAD), interrupts are masked, GIF
\* is set, EFER.SVME is cleared, and only then RFLAGS is restored.  Between
\* setting GIF and clearing SVME interrupts are never unmasked, and RFLAGS
\* is never restored while SVME is set.
C10_UnloadOrder ==
    LET order == <<"encode", "vmload_guest", "disable", "stgi", "clear_svme",
                   "writeeflags">>
        done(op) == \E i \in 1..Len(vx.trace) : vx.trace[i] = op
    IN  /\ Len(vx.trace) <= Len(order)
        /\ \A i \in 1..Len(vx.trace) : vx.trace[i] = order[i]
        /\ (done("stgi") /\ ~done("clear_svme")) => (vx.hw.GIF /\ ~vx.hw.IF)
        /\ vx.hw.rflagsRestored => ~vx.hw.SVME
        /\ pc \in {"return", "unloaded"} /\ vx.ExitVm = "EXIT_EXIT" =>
               vx.trace = order

\* A completed unload of a guest that ran with interrupts enabled, entered
\* with the host's interrupt flag set.
C10_Witness ==
    /\ pc = "unloaded"
    /\ Len(vx.trace) = 6
    /\ RflagsIF(vx.GuestVmcb.Rflags)
    /\ vx.hw.IF
    /\ ~vx.hw.SVME

\* The dispatcher has run its switch for the exit the guest took last.
Dispatched == vx.in.code # "VMEXIT_NONE" /\ pc \notin {"entry", "dispatch"}

\* The dispatcher is between its switch and its return.
AfterSwitch == pc = "writeback" \/ (pc = "unload" /\ vx.trace = <<>>)

\* C11: no exit reason is silently ignored.  Once the switch has run, in
\* flat and in nested mode, a handler was called for the exit code, or a
\* fault is pending for the guest, or the system is halted; an exit code
\* for which no handler was called is halted on, and a halted system is
\* never resumed.
C11_NoExitIgnored ==
    /\ Dispatched =>
           \/ vx.handler # "none"
           \/ vx.GuestVmcb.EventInj.Valid = 1
           \/ vx.Vmcb02.EventInj.Valid = 1
           \/ pc = "halt"
    /\ vx.halt => pc = "halt"

\* C12: a nested-page-fault exit in flat mode ends in the fatal halt; the
\* dispatcher never goes on to resume the guest.
C12_NpfHalts ==
    (Dispatched /\ vx.in.mode = "ProtectedMode" /\ vx.in.code = "VMEXIT_NPF") =>
        pc = "halt"

\* C13: in flat mode an MSR exit whose RCX is none of EFER, LSTAR and
\* VM_HSAVE_PA injects #GP into the outer guest VMCB (valid, vector 13,
\* type exception, error code valid and 0), leaves the guest RIP where the
\* exit found it, and does not request the exit of the hypervisor.
C13_MsrGpInjected ==
    (Dispatched /\ vx.in.mode = "ProtectedMode" /\ vx.in.code = "VMEXIT_MSR"
        /\ vx.in.rcx \notin {IA32_MSR_EFER, IA32_MSR_LSTR, IA32_MSR_VM_HSAVE}) =>
        /\ vx.GuestVmcb.EventInj =
               [Vector |-> 13, Type |-> 3, ErrorCodeValid |-> 1, Valid |-> 1,
                ErrorCode |-> 0]
        /\ vx.GuestVmcb.Rip = vx.in.rip
        /\ vx.GuestVmcb.Rip # vx.in.nrip
        /\ vx.ExitVm = "EXIT_NOTHING"
        /\ pc \in {"writeback", "return", "guest"}

\* The return from an access to MSR 0x10, #GP pending.
C13_Witness ==
    /\ pc = "return"
    /\ vx.in.mode = "ProtectedMode"
    /\ vx.in.code = "VMEXIT_MSR"
    /\ vx.in.rcx = W(16)
    /\ vx.GuestVmcb.EventInj.Valid = 1
    /\ vx.GuestVmcb.EventInj.Vector = 13

\* C14: on every flat-mode CPUID exit, whatever the leaf and sub-leaf, the
\* unload leaf included, the guest VMCB's RIP becomes the NRip hardware
\* reported for that exit.
C14_CpuidNRip ==
    (Dispatched /\ vx.in.mode = "ProtectedMode" /\ vx.in.code = "VMEXIT_CPUID") =>
        vx.GuestVmcb.Rip = vx.in.nrip

\* The return from a CPUID that is three bytes long (one with a prefix):
\* RIP + 2 would land inside the instruction.
C14_Witness ==
    /\ pc = "return"
    /\ vx.in.mode = "ProtectedMode"
    /\ vx.in.code = "VMEXIT_CPUID"
    /\ vx.in.nrip = Add64(vx.in.rip, 3)
    /\ vx.GuestVmcb.Rip = vx.in.nrip

\* C16: for leaf 1 SvHandleCpuid returns the hardware results with the
\* hypervisor-present bit (bit 31) set in ECX and EAX, EBX, EDX as hardware
\* gave them; for every leaf other than leaf 1, the vendor leaf and the
\* interface leaf, all four results are the hardware values.
C16_FeatureLeaf ==
    (AfterSwitch /\ vx.in.mode = "ProtectedMode" /\ vx.in.code = "VMEXIT_CPUID") =>
        LET leaf == Lo32(vx.in.rax)
            result == <<Lo32(vx.regs.Rax), Lo32(vx.regs.Rbx), Lo32(vx.regs.Rcx),
                        Lo32(vx.regs.Rdx)>>
        IN  /\ leaf = CPUID_PROCESSOR_AND_PROCESSOR_FEATURE_IDENTIFIERS =>
                   result = <<vx.native[1], vx.native[2],
                              OrHypervisorPresent(vx.native[3]), vx.native[4]>>
            /\ leaf \notin {CPUID_PROCESSOR_AND_PROCESSOR_FEATURE_IDENTIFIERS,
                             CPUID_HV_VENDOR_AND_MAX_FUNCTIONS, CPUID_HV_INTERFACE} =>
                   result = vx.native

(***************************************************************************)
(* Properties of the shared state builder (specification SpecBuild).       *)
(***************************************************************************)
\* How the processor reads the permissions map: three ranges of 0x2000
\* MSRs, two bits per MSR, the low one for reads, the high one for writes.
MsrRanges ==
    <<[base |-> FIRST_MSR_RANGE_BASE, byteOffset |-> 0],
      [base |-> SECOND_MSR_RANGE_BASE, byteOffset |-> 2048],
      [base |-> THIRD_MSR_RANGE_BASE, byteOffset |-> 4096]>>

ReadBit(r, k) == MsrRanges[r].byteOffset * 8 + 2 * k
WriteBit(r, k) == ReadBit(r, k) + 1

\* An MSR as its range and its index in the range.
MsrIn(r, msr) == <<r, BitIndex(Sub32(Lo32(msr), MsrRanges[r].base))>>

\* C17 as stated: after any number of calls on a buffer of any prior
\* contents exactly 6 bits are set, 2 for EFER, 2 for the system-call-target
\* register, 2 for the host-save-area register.
C17_SixBits ==
    sv.built.msr =>
        /\ Cardinality(sv.MsrPermissionsMap) = 6
        /\ \A m \in {MsrIn(2, IA32_MSR_EFER), MsrIn(2, IA32_MSR_LSTR),
                      MsrIn(3, IA32_MSR_VM_HSAVE)} :
               {ReadBit(m[1], m[2]), WriteBit(m[1], m[2])} \subseteq sv.MsrPermissionsMap

\* C17 amended: after any number of calls on a buffer of any prior contents
\* exactly 5 bits are set, 1 for EFER, 2 for the system-call-target
\* register, 2 for the host-save-area register, and all other bits are
\* clear.
C17_FiveBits ==
    sv.built.msr =>
        LET bits(m) == {ReadBit(m[1], m[2]), WriteBit(m[1], m[2])}
                           \cap sv.MsrPermissionsMap
        IN  /\ Cardinality(sv.MsrPermissionsMap) = 5
            /\ Cardinality(bits(MsrIn(2, IA32_MSR_EFER))) = 1
            /\ Cardinality(bits(MsrIn(2, IA32_MSR_LSTR))) = 2
            /\ Cardinality(bits(MsrIn(3, IA32_MSR_VM_HSAVE))) = 2

\* The map built over a buffer that held stray bits and some of the bits
\* of the result.
C17_Witness ==
    /\ sv.built.msr
    /\ sv.prior = {16640, 16641, 33326, 40000}
    /\ Cardinality(sv.MsrPermissionsMap) = 5

\* C18: after SvBuildMsrPermissionsMap the map intercepts writes of EFER
\* but not its reads, reads and writes of the system-call-target register,
\* reads and writes of the host-save-area register, and no access to any
\* other MSR; every set bit lies within the map.
C18_Intercepts ==
    sv.built.msr =>
        /\ \A r \in 1..3 : \A k \in 0..8191 :
               LET read == ReadBit(r, k) \in sv.MsrPermissionsMap
                   write == WriteBit(r, k) \in sv.MsrPermissionsMap
               IN  IF <<r, k>> = MsrIn(2, IA32_MSR_EFER) THEN ~read /\ write
                   ELSE IF <<r, k>> \in {MsrIn(2, IA32_MSR_LSTR),
                                         MsrIn(3, IA32_MSR_VM_HSAVE)}
                       THEN read /\ write
                   ELSE ~read /\ ~write
        /\ \A b \in sv.MsrPermissionsMap :
               b >= 0 /\ b < SVM_MSR_PERMISSIONS_MAP_SIZE * CHAR_BIT

\* The map built over a buffer in which the EFER read bit was set.
C18_Witness ==
    /\ sv.built.msr
    /\ sv.prior = {16640}
    /\ 16640 \notin sv.MsrPermissionsMap
    /\ 16641 \in sv.MsrPermissionsMap

\* C19: SvBuildNestedPageTables produces an identity map: for every large
\* page index n in [0, 512*512) the leaf entry PdeEntries[n / 512][n % 512]
\* translates to page n; the top-level entry 0 points at the second-level
\* table and second-level entry i points at leaf table i.
C19_IdentityMap ==
    sv.built.npt =>
        /\ \A n \in 0..(512 * 512 - 1) :
               sv.PdeEntries[n \div 512][n % 512].PageFrameNumber = n
        /\ sv.Pml4Entries[0].PageFrameNumber * 4096
               = MmGetPhysicalAddress(sv.layout, PdpPage)
        /\ \A i \in 0..511 :
               sv.PdpEntries[i].PageFrameNumber * 4096
                   = MmGetPhysicalAddress(sv.layout, PdePage(i))

\* Tables built in a block whose physical pages are scattered.
C19_Witness ==
    /\ sv.built.npt
    /\ sv.layout = "scattered"
    /\ sv.PdeEntries[511][511].PageFrameNumber = 262143
    /\ sv.PdpEntries[1].PageFrameNumber # sv.PdpEntries[0].PageFrameNumber + 1

\* C20: after SvBuildNestedPageTables every one of the 512*512 leaf
\* entries is present, writable, user-accessible and a large page, and the
\* top-level entry 0 and all 512 second-level entries are present, writable
\* and user-accessible.
C20_AllPresent ==
    sv.built.npt =>
        /\ \A i \in 0..511 : \A j \in 0..511 :
               LET e == sv.PdeEntries[i][j]
               IN  e.Valid = 1 /\ e.Write = 1 /\ e.User = 1 /\ e.LargePage = 1
        /\ \A i \in 0..511 :
               LET e == sv.PdpEntries[i]
               IN  e.Valid = 1 /\ e.Write = 1 /\ e.User = 1
        /\ LET e == sv.Pml4Entries[0]
           IN  e.Valid = 1 /\ e.Write = 1 /\ e.User = 1

\* Tables built and the permissions map not yet: the last leaf entry and
\* the last second-level entry are present.
C20_Witness ==
    /\ sv.built.npt
    /\ ~sv.built.msr
    /\ sv.PdeEntries[511][511].Valid = 1
    /\ sv.PdpEntries[511].User = 1

\* C21: every run of SvExecuteOnEachProcessor invokes the callback on
\* processors 0, 1, 2, ... in that order, each invocation pinned to its own
\* processor, and stops at the first invocation that fails; the completed
\* count is the index of the failing processor on failure and the number
\* of processors exactly when the status is success; the thread's affinity
\* is back to what it was after every invocation, the failing one included;
\* the processors after the failing one are as they were.
C21_ExecuteInOrder ==
    \A k \in 1..Len(last.exec) :
        LET e == last.exec[k]
            c == e.calls
        IN  /\ \A j \in 1..Len(c) : /\ c[j].i = j - 1
                                    /\ c[j].on = j - 1
                                    /\ c[j].after = UserAffinity
            /\ \A j \in 1..(Len(c) - 1) : NT_SUCCESS(c[j].status)
            /\ Len(c) <= NumProcessors
            /\ ~NT_SUCCESS(e.status) =>
                   /\ Len(c) > 0
                   /\ c[Len(c)].status = e.status
                   /\ e.n = Len(c) - 1
                   /\ \A p \in AllProcessors : p > e.n => e.cpuPost[p] = e.cpuPre[p]
            /\ NT_SUCCESS(e.status) <=> e.n = NumProcessors
            /\ NT_SUCCESS(e.status) => Len(c) = NumProcessors

\* A run whose callback failed on the last processor, after it had
\* succeeded on the ones before.
C21_Witness ==
    \E k \in 1..Len(last.exec) :
        /\ ~NT_SUCCESS(last.exec[k].status)
        /\ last.exec[k].n = NumProcessors - 1
        /\ Len(last.exec[k].calls) = NumProcessors

\* C22: SvDevirtualizeProcessor returns STATUS_SUCCESS whatever it is given;
\* called without its out parameter, or on a processor whose answer to the
\* unload request lacks the marker, it frees no block, leaves the heap and
\* every processor as they were and does not touch the caller's
\* sharedVpData.
C22_DevirtualizeNoOp ==
    \A k \in 1..Len(last.dv) :
        LET r == last.dv[k]
        IN  /\ r.status = STATUS_SUCCESS
            /\ (r.Context = NULL \/ ~r.marker) =>
                   /\ r.freed = {}
                   /\ r.heapSame
                   /\ r.cpuSame
                   /\ r.sharedSame

\* The call without the out parameter on a virtualized processor, the
\* caller's sharedVpData holding an address.
C22_Witness ==
    \E k \in 1..Len(last.dv) :
        /\ last.dv[k].Context = NULL
        /\ last.dv[k].was
        /\ last.op = "SvDevirtualizeProcessor"
        /\ \E p \in AllProcessors : cpu[p].VpData # NULL

\* C23: a call of SvDevirtualizeAllProcessors frees at most one shared data
\* block with its one permissions map, and without corrupting the pool;
\* when it frees them the devirtualize callback has returned on every
\* processor, some processor was virtualized when the call began, and no
\* processor is virtualized any more, so none refers to the freed block.
C23_SharedFreedLast ==
    \A k \in 1..Len(last.da) :
        LET d == last.da[k]
        IN  /\ Cardinality(d.freed) <= 2
            /\ ~d.fault
            /\ d.freed # {} =>
                   /\ d.shared \in d.freed
                   /\ d.run.Callback = "SvDevirtualizeProcessor"
                   /\ {d.run.calls[j].on : j \in 1..Len(d.run.calls)} = AllProcessors
                   /\ d.before # {}
                   /\ d.atFree = {}
                   /\ d.referencing = {}

\* A call that freed the shared data all processors were running on.
C23_Witness ==
    \E k \in 1..Len(last.da) :
        /\ last.da[k].freed # {}
        /\ last.da[k].before = AllProcessors

\* C24: from the launch on, the sentinel of the host stack layout is
\* MAXUINT64 at the entry to SvHandleVmExit, at every step of every
\* dispatcher path and at its return, so no path writes it; and when the
\* processor has left the hypervisor, the block SvDevirtualizeProcessor
\* decodes from EDX:EAX and reclaims is the one that holds this sentinel.
C24_Sentinel ==
    /\ vx.Reserved1 = MAXUINT64
    /\ pc = "unloaded" => SvDecodeVpData(SvLaunchVmOnExit(vx.regs)) = vx.VpData

\* The processor has left the hypervisor after an EFER write was handled.
C24_Witness ==
    /\ pc = "unloaded"
    /\ vx.GuestMsrEFER # NULL
    /\ vx.Reserved1 = MAXUINT64

\* C25: the shared data a virtualized processor runs on is an outstanding
\* block with an outstanding permissions map; each of the two was written
\* once, by its builder in SvVirtualizeAllProcessors, when no processor was
\* running on it; and it still holds what the builder wrote: the built
\* nested page tables and the bits of SvBuildMsrPermissionsMap.
C25_SharedImmutable ==
    \A p \in Virtualized(cpu) :
        LET S == heap[cpu[p].VpData].SharedVpData
            M == heap[S].MsrPermissionsMap
        IN  /\ heap[S].kind = "shared"
            /\ heap[M].kind = "msrpm"
            /\ heap[S].writes = <<[by |-> "SvBuildNestedPageTables", users |-> {}]>>
            /\ heap[M].writes = <<[by |-> "SvBuildMsrPermissionsMap", users |-> {}]>>
            /\ heap[S].Npt = "built"
            /\ heap[M].bits = SvBuildMsrPermissionsMap({})

\* All processors run on their shared data after the power callback
\* devirtualized and virtualized them again.
C25_Witness ==
    /\ Virtualized(cpu) = AllProcessors
    /\ last.op = "SvPowerCallbackRoutine"
    /\ last.ended = "virtualize"
    /\ \A p \in AllProcessors :
           heap[heap[cpu[p].VpData].SharedVpData].Npt = "built"

\* C26: when DriverEntry, on a processor that passes the capability probe,
\* has virtualized all processors and devirtualized them at once (the
\* system call hook failed), every processor has the EFER.SVME bit and the
\* VM_HSAVE_PA MSR it had before, and each processor continued after its
\* unload request with the RIP and RSP captured at the request.
C26_RoundTrip ==
    (/\ last.op = "DriverEntry"
     /\ last.va.called
     /\ last.va.probe
     /\ NT_SUCCESS(last.va.status)
     /\ last.ended = "devirtualize") =>
        /\ \A p \in AllProcessors :
               /\ cpu[p].SVME = last.va.cpuPre[p].SVME
               /\ cpu[p].VM_HSAVE_PA = last.va.cpuPre[p].VM_HSAVE_PA
        /\ \A u \in last.unl : u.hv.Rbx = u.in.nrip /\ u.hv.Rcx = u.in.rsp

\* What the processor does with a WRMSR to EFER of the guest that runs on
\* control block VpData: it exits to the hypervisor when the VMCB has the
\* MSR protection intercept and the permissions map the VMCB points at has
\* the write bit of EFER set.
EferWriteIntercepted(h, VpData) ==
    /\ "SVM_INTERCEPT_MISC1_MSR_PROT" \in h[VpData].InterceptMisc1
    /\ \E b \in Pool :
           /\ h[b].kind = "msrpm"
           /\ PhysicalAddressOf(b) = h[VpData].MsrpmBasePa
           /\ WriteBit(2, MsrIn(2, IA32_MSR_EFER)[2]) \in h[b].bits

\* The exit the guest took last is a WRMSR with ECX = IA32_MSR_EFER, in
\* flat mode, and the switch has run.
EferWriteDispatched ==
    /\ Dispatched
    /\ vx.in.mode = "ProtectedMode"
    /\ vx.in.code = "VMEXIT_MSR"
    /\ Lo32(vx.in.rcx) = Lo32(IA32_MSR_EFER)
    /\ vx.GuestVmcb.ExitInfo1 = 1

\* C27: on a virtualized processor a guest write to EFER exits to the
\* hypervisor (the VMCB has the MSR protection intercept and its permissions
\* map the write bit of EFER); the write is handled by the EFER case of
\* SvHandleMsrAccess, which records the value as the guest's EFER, skips the
\* instruction and injects nothing; and EFER.SVME of the processor is set on
\* every path of the dispatcher but the unload path.
C27_EferWriteIntercepted ==
    /\ \A p \in Virtualized(cpu) : EferWriteIntercepted(heap, cpu[p].VpData)
    /\ vx.ExitVm # "EXIT_EXIT" => vx.hw.SVME
    /\ EferWriteDispatched =>
           /\ vx.hw.SVME
           /\ vx.GuestMsrEFER = Or64(Shl32(vx.regs.Rdx), AndMaxUint32(vx.in.rax))
           /\ vx.GuestVmcb.Rip = vx.in.nrip
           /\ vx.GuestVmcb.EventInj.Valid = 0

\* The handlers of the nested switch that reflect an exit of L2 to L1 with
\* SaveGuestVmcb12FromGuestVmcb02.
SaveCallers ==
    {"SvHandleCpuidForL2ToL1", "SvHandleMsrAccessNest", "SvHandleVmmcallNest"}

\* The step of the dispatcher in which SaveGuestVmcb12FromGuestVmcb02 runs.
SaveStep == pc = "dispatch" /\ pc' = "writeback" /\ vx'.handler \in SaveCallers

\* The fields of the 12-view SaveGuestVmcb12FromGuestVmcb02 assigns.
SavedFields ==
    {"Rax", "Rsp", "Rflags", "Rip", "NRip", "ExitCode", "ExitInfo1", "ExitInfo2",
     "ExitIntInfo", "EventInj", "Cpl", "LStar"}

\* C28: a run of SaveGuestVmcb12FromGuestVmcb02 leaves in the 12-view the
\* exit code, exit info 1 and 2, exit interrupt info, event injection
\* field, CPL and LSTAR the 02-view had, the RAX of L2 from the register
\* snapshot, and the RSP, RFLAGS, RIP and NRip of L2 that the 02-view held
\* before the run (the values the exit saved); every other field of the
\* 12-view is as before.
C28_SaveVmcb12 ==
    [][SaveStep =>
          /\ \A f \in {"ExitCode", "ExitInfo1", "ExitInfo2", "ExitIntInfo",
                        "EventInj", "Cpl", "LStar", "Rsp", "Rflags", "Rip", "NRip"} :
                 vx'.Vmcb12[f] = vx.Vmcb02[f]
          /\ vx'.Vmcb12.Rax = vx.in.rax
          /\ vx'.Vmcb12.Rsp = vx.in.rsp
          /\ vx'.Vmcb12.Rflags = vx.in.rflags
          /\ vx'.Vmcb12.Rip = vx.in.rip
          /\ vx'.Vmcb12.NRip = vx.in.nrip
          /\ \A f \in DOMAIN vx.Vmcb12 \ SavedFields : vx'.Vmcb12[f] = vx.Vmcb12[f]]_vars

\* The 12-view after the CPUID of L2 was reflected: it holds the resume
\* point of L2, which the 02-view no longer does.
C28_Witness ==
    /\ pc = "writeback"
    /\ vx.handler = "SvHandleCpuidForL2ToL1"
    /\ vx.Vmcb12.ExitCode = "VMEXIT_CPUID"
    /\ vx.Vmcb12.Rip = vx.in.rip
    /\ vx.Vmcb12.Rsp = vx.in.rsp
    /\ vx.Vmcb12.Rax = vx.in.rax
    /\ vx.Vmcb02.Rip # vx.Vmcb12.Rip
    /\ vx.Vmcb02.Rsp # vx.Vmcb12.Rsp

C30_PowerTransitions ==
    /\ last.op = "SvPowerCallbackRoutine" =>
           /\ last.pw.Argument1 # PO_CB_SYSTEM_STATE_LOCK =>
                  ~last.pw.changed /\ ~last.va.called /\ last.da = <<>>
           /\ (last.pw.Argument1 = PO_CB_SYSTEM_STATE_LOCK
                  /\ last.pw.Argument2 = BOOL_FALSE) =>
                  ~last.va.called /\ Len(last.da) = 1
           /\ (last.pw.Argument1 = PO_CB_SYSTEM_STATE_LOCK
                  /\ last.pw.Argument2 # BOOL_FALSE) =>
                  last.va.called
    /\ last.alt = "slept" => Virtualized(cpu) = {}
    /\ last.alt = "resumed" =>
           /\ Virtualized(cpu) = AllProcessors
           /\ Cardinality({a \in Pool : heap[a].kind = "shared"}) = 1
           /\ \A p \in AllProcessors :
                  {a \in Pool : heap[a].kind = "vp" /\ heap[a].owner = p}
                      = {cpu[p].VpData}

\* The machine after the resume that followed a sleep: virtualized again,
\* on blocks the resume allocated.
C30_Witness ==
    /\ last.op = "SvPowerCallbackRoutine"
    /\ last.alt = "resumed"
    /\ last.pw.Argument2 # BOOL_FALSE
    /\ Virtualized(cpu) = AllProcessors
    /\ Cardinality(last.va.allocated) = 2 + 2 * NumProcessors

\* C31: SvIsSvmSupported returns TRUE exactly when the vendor is AuthenticAMD,
\* the SVM bit and the nested paging bit are set and VM_CR.SVMDIS is clear,
\* whatever the combination of the four.
C31_SvmSupportedIff ==
    last.va.called =>
        (last.va.probe = TRUE <=>
            /\ drv.hw.vendor = "AuthenticAMD"
            /\ drv.hw.svm
            /\ drv.hw.np
            /\ ~drv.hw.svmdis)

\* The check has refused a processor that lacks nothing but nested paging.
C31_Witness ==
    /\ last.va.called
    /\ last.va.probe = FALSE
    /\ drv.hw.vendor = "AuthenticAMD"
    /\ drv.hw.svm
    /\ ~drv.hw.np
    /\ ~drv.hw.svmdis

\* C32: a call of SvVirtualizeProcessor that fails to allocate the control
\* block or the nested context returns STATUS_INSUFFICIENT_RESOURCES with no
\* block of that call outstanding and the processors as they were; with no
\* context it returns STATUS_INVALID_PARAMETER_1 without an allocation
\* request; and a call of SvVirtualizeAllProcessors that gets the shared data
\* but not the MSR permissions map returns with the shared data freed.
C32_UnwoundAtOnce ==
    /\ \A k \in DOMAIN last.virt :
           /\ last.virt[k].Context = NULL =>
                  /\ last.virt[k].status = STATUS_INVALID_PARAMETER_1
                  /\ last.virt[k].requests = 0
                  /\ last.virt[k].left = {}
           /\ (last.virt[k].Context # NULL /\ last.virt[k].requests < 2) =>
                  last.virt[k].status = STATUS_INSUFFICIENT_RESOURCES
           /\ last.virt[k].status = STATUS_INSUFFICIENT_RESOURCES =>
                  /\ last.virt[k].left = {}
                  /\ last.virt[k].cpuSame
                  /\ last.virt[k].requests \in {1, 2}
    /\ (last.va.called /\ {b.kind : b \in last.va.allocated} = {"shared"}) =>
           /\ last.va.status = STATUS_INSUFFICIENT_RESOURCES
           /\ last.va.outstanding = {}
           /\ last.va.cpuPost = last.va.cpuPre

\* A call that got the control block but not the nested context.
C32_Witness ==
    /\ last.op = "SvVirtualizeProcessor"
    /\ Len(last.virt) = 1
    /\ last.virt[1].requests = 2
    /\ last.virt[1].status = STATUS_INSUFFICIENT_RESOURCES
    /\ last.virt[1].left = {}

\* The positions of statement ev in the statements of one call.
EventsOf(L, ev) == {i \in DOMAIN L : L[i].ev = ev}

\* C33: in every call of SvVirtualizeProcessor both allocations and the
\* context capture precede the installed check; every VMSAVE finds EFER.SVME
\* set; when SvLaunchVm is called the guest VMCB holds the guest state, the
\* intercepts, the nested paging root and the address of the permissions
\* map, the host stack layout holds the sentinel and the back references,
\* and VM_HSAVE_PA holds the address of the host state area; and the launch
\* does not return: the next statement runs in the guest at the captured
\* context, and KeBugCheck is not reached.
C33_VirtualizeOrder ==
    \A k \in DOMAIN last.virt :
        LET v == last.virt[k]
            L == v.log
        IN  /\ \A i \in EventsOf(L, "SvIsSimpleSvmHypervisorInstalled") :
                   /\ L[i].requests - v.first = 2
                   /\ L[i].vp.kind = "vp"
                   /\ L[i].vp.pProcessNestData # NULL
                   /\ \E j \in EventsOf(L, "RtlCaptureContext") : j < i
            /\ \A i \in EventsOf(L, "__svm_vmsave") :
                   /\ L[i].SVME
                   /\ \E j \in EventsOf(L, "EFER_SVME") : j < i
            /\ \A i \in EventsOf(L, "SvLaunchVm") :
                   /\ ~L[i].guest
                   /\ L[i].SVME
                   /\ L[i].vp.StateSaveArea = "ContextRecord"
                   /\ 3 \in L[i].vp.InterceptException
                   /\ {"SVM_INTERCEPT_MISC1_CPUID", "SVM_INTERCEPT_MISC1_MSR_PROT"}
                          \subseteq L[i].vp.InterceptMisc1
                   /\ {"SVM_INTERCEPT_MISC2_VMRUN", "SVM_INTERCEPT_MISC2_VMMCALL"}
                          \subseteq L[i].vp.InterceptMisc2
                   /\ L[i].vp.NpEnable
                   /\ L[i].vp.NCr3 = PhysicalAddressOf(v.Context)
                   /\ L[i].vp.MsrpmBasePa # NULL
                   /\ L[i].vp.Reserved1 = MAXUINT64
                   /\ L[i].vp.SharedVpData = v.Context
                   /\ L[i].vp.Self \in Pool
                   /\ L[i].VM_HSAVE_PA = HostStateAreaPa(L[i].vp.Self)
                   /\ \A ev \in {"GuestVmcb", "HostStackLayout", "IA32_MSR_VM_HSAVE"} :
                          \E j \in EventsOf(L, ev) : j < i
                   /\ Cardinality({j \in EventsOf(L, "__svm_vmsave") : j < i}) = 2
                   /\ i < Len(L)
                   /\ L[i + 1].ev = "SvIsSimpleSvmHypervisorInstalled"
                   /\ L[i + 1].guest
            /\ EventsOf(L, "KeBugCheck") = {}

\* A processor has been launched, and its guest has returned success.
C33_Witness ==
    \E k \in DOMAIN last.virt :
        /\ EventsOf(last.virt[k].log, "SvLaunchVm") # {}
        /\ last.virt[k].status = STATUS_SUCCESS
        /\ ~last.virt[k].was

\* C34: a processor that has just been prepared and launched is in flat
\* mode with no inner vCPU and no cached host save area; whenever
\* SvHandleVmExit is entered in nested mode the inner vCPU pointer is not
\* null, so the reload of the host state never goes through a null pointer;
\* and the reload uses the outer hypervisor's host VMCB exactly when the
\* mode is flat and the inner vCPU pointer is null.
C34_ModeConsistency ==
    /\ (pc = "guest" /\ vx.in.code = "VMEXIT_NONE") =>
           /\ vx.CpuMode = "ProtectedMode"
           /\ vx.vcpu_vmx = NULL
           /\ vx.GuestSvmHsave12 = NULL
    /\ (pc = "entry" /\ vx.CpuMode = "VmxMode") => vx.vcpu_vmx # NULL
    /\ pc = "dispatch" =>
           (vx.hw.loaded = "HostVmcb"
               <=> (vx.CpuMode # "VmxMode" /\ vx.vcpu_vmx = NULL))
    /\ vx.hw.loaded # "fault"

\* The dispatcher entered in nested mode, the host state reloaded from the
\* inner vCPU's host VMCB.
C34_Witness ==
    /\ pc = "dispatch"
    /\ vx.CpuMode = "VmxMode"
    /\ vx.vcpu_vmx # NULL
    /\ vx.hw.loaded = "Host02"

\* C35: when the dispatcher reaches its switch, before any handler has run,
\* RAX of the register snapshot is the saved RAX of the VMCB of the guest
\* that exited (the outer guest VMCB in flat mode, the 02-view in nested
\* mode, by the mode in force on entry), the exit code switched on is that
\* VMCB's exit code, and the exit request flag is clear.
C35_RaxReflected ==
    [][pc = "dispatch" =>
          /\ vx'.seen.Rax = (IF vx.CpuMode = "VmxMode" THEN vx.Vmcb02.Rax
                             ELSE vx.GuestVmcb.Rax)
          /\ vx'.seen.Rax = vx.in.rax
          /\ vx'.seen.code = (IF vx.CpuMode = "VmxMode" THEN vx.Vmcb02.ExitCode
                              ELSE vx.GuestVmcb.ExitCode)
          /\ vx'.seen.code = vx.in.code
          /\ vx'.seen.ExitVm = "EXIT_NOTHING"]_vars

\* A nested exit dispatched on the 02-view, whose RAX differs from the
\* outer guest VMCB's.
C35_Witness ==
    /\ pc \in {"writeback", "unload"}
    /\ vx.in.mode = "VmxMode"
    /\ vx.seen.code = "VMEXIT_CPUID"
    /\ vx.seen.Rax = vx.in.rax
    /\ vx.seen.Rax # vx.GuestVmcb.Rax

\* The exit codes the intercepts of control block vp let the guest produce:
\* exception vector 3, CPUID, the MSR accesses the permissions map selects,
\* VMRUN and VMMCALL.
InterceptedExits(vp) ==
    {c \in ExitCodes :
        \/ c = "VMEXIT_EXCEPTION_BP" /\ 3 \in vp.InterceptException
        \/ c = "VMEXIT_CPUID" /\ "SVM_INTERCEPT_MISC1_CPUID" \in vp.InterceptMisc1
        \/ c = "VMEXIT_MSR" /\ "SVM_INTERCEPT_MISC1_MSR_PROT" \in vp.InterceptMisc1
        \/ c = "VMEXIT_VMRUN" /\ "SVM_INTERCEPT_MISC2_VMRUN" \in vp.InterceptMisc2
        \/ c = "VMEXIT_VMMCALL" /\ "SVM_INTERCEPT_MISC2_VMMCALL" \in vp.InterceptMisc2}

\* C36: no exit that the intercepts configured by SvPrepareForVirtualization
\* produce in flat mode drives the dispatcher into its fatal halt: when the
\* dispatcher halts on a flat-mode exit, the exit code is none of those.
C36_InterceptsHandled ==
    (pc = "halt" /\ vx.in.mode # "VmxMode") =>
        vx.in.code \notin InterceptedExits(heap[vx.VpData])

\* C37: a call of SvDevirtualizeAllProcessors that finds no processor
\* virtualized (a second call with no virtualization in between, or a call
\* before any) frees nothing and changes nothing, and no call frees a
\* block that is not outstanding.
C37_DevirtualizeIdempotent ==
    \A k \in DOMAIN last.da :
        /\ last.da[k].before = {} =>
               /\ last.da[k].released = {}
               /\ last.da[k].freed = {}
               /\ last.da[k].shared = NULL
               /\ last.da[k].heapSame
               /\ last.da[k].cpuSame
        /\ ~last.da[k].faulted

\* A sleep notification on a loaded driver whose processors were all
\* devirtualized already: the callback has run on every processor.
C37_Witness ==
    /\ last.op = "SvPowerCallbackRoutine"
    /\ Len(last.da) = 1
    /\ last.da[1].before = {}
    /\ last.da[1].run.n = NumProcessors
    /\ Len(last.dv) = NumProcessors

\* C38: StartAmdSvmAndHookMsr returns TRUE exactly when
\* SvVirtualizeAllProcessors and SyscallHookEnable both succeeded; when the
\* hook fails after a successful virtualization, SvDevirtualizeAllProcessors
\* runs before FALSE is returned; and after FALSE no processor is
\* virtualized and no allocation is outstanding.
C38_StartAllOrNothing ==
    (last.op = "DriverEntry" /\ last.de.started) =>
        /\ last.de.ret = BOOL_TRUE <=>
               (NT_SUCCESS(last.va.status) /\ last.hook = "enabled")
        /\ last.hook # "none" <=> NT_SUCCESS(last.va.status)
        /\ last.hook = "failed" =>
               /\ last.de.ret = BOOL_FALSE
               /\ Len(last.da) = 1
               /\ last.da[1].before = AllProcessors
        /\ last.de.ret = BOOL_FALSE =>
               /\ Virtualized(cpu) = {}
               /\ Outstanding(heap) = {}

\* C39: after a flat-mode CPUID exit the guest's RAX, RBX, RCX and RDX hold
\* the 32-bit results zero-extended: their upper 32 bits are zero, also for
\* results with bit 31 set.
C39_CpuidZeroExtended ==
    (pc \in {"writeback", "return"} /\ vx.handler = "SvHandleCpuid"
        /\ vx.ExitVm = "EXIT_NOTHING") =>
        /\ \A r \in {vx.regs.Rax, vx.regs.Rbx, vx.regs.Rcx, vx.regs.Rdx} :
               Shr32(r) = NULL
        /\ pc = "return" => Shr32(vx.GuestVmcb.Rax) = NULL

=============================================================================
